---- MODULE Spec2Model ----
(***************************************************************************)
(* Model of the CoAct-1 delegation controller (coact_1_example.py), of the *)
(* helpers it calls and of the composed action loop                        *)
(* (composed_grounded.py).  Python dictionaries are records; dict.get is   *)
(* Get/Has; values whose Python type the code tests with isinstance are    *)
(* tagged with their type (Str, List, Dict).                               *)
(***************************************************************************)
EXTENDS Integers, Sequences, FiniteSets, TLC

\* ------------------------------------------------------------------------
\* Bounds of the model (environment behaviour that is explored)
\* ------------------------------------------------------------------------
\* rounds of one run in which the Orchestrator calls another tool than
\* delegate_to_programmer and the run goes on (a GUI Operator delegation, or
\* a tool that is no delegation)
MaxOtherCalls == 1
\* summarization calls of one run that raise
MaxSummaryFailures == 1

\* ------------------------------------------------------------------------
\* Program constants
\* ------------------------------------------------------------------------
\* range(11): one iteration too many
MaxStepsOffByOne == 10 + 1

\* for i in range(10)
MaxSteps == 10

\* ------------------------------------------------------------------------
\* Python values
\* ------------------------------------------------------------------------
\* None where a string (or nothing) is held
None == "None"
\* None where a dictionary (or nothing) is held
NoItem == [type |-> "None"]

Str(s) == [py |-> "str", v |-> s]
List(q) == [py |-> "list", v |-> q]
Dict(r) == [py |-> "dict", v |-> r]

Has(d, k) == k \in DOMAIN d
\* d.get(k, default)
Get(d, k, default) == IF k \in DOMAIN d THEN d[k] ELSE default

\* screenshots are non-empty base64 payloads: the screen when run starts,
\* and the screen a sub-agent captures after an action
InitialScreens == {"A"}
ActionScreens == {"B"}
Images == InitialScreens \cup ActionScreens

PngPrefix == "data:image/png;base64,"
\* f"data:image/png;base64,{b64}"
DataUrl(b64) == [prefix |-> PngPrefix, data |-> b64]
\* the "" that .get("url", "") falls back to
EmptyUrl == [prefix |-> "", data |-> ""]
\* url.startswith("data:image/png;base64,")
StartsWithPng(url) == url.prefix = PngPrefix
\* url.split(",", 1)[1]
AfterComma(url) == url.data

TextPart(t) == [type |-> "text", text |-> t]
ImagePart(b64) == [type |-> "image_url", image_url |-> [url |-> DataUrl(b64)]]

\* ------------------------------------------------------------------------
\* get_last_image_b64 (coact_1_example.py)
\* ------------------------------------------------------------------------
\* the local name image_url before its first assignment
Unbound == [prefix |-> "<unbound>", data |-> ""]
UnboundLocalError == "UnboundLocalError"

\* content_item.get("image_url", {}).get("url", "")
NestedUrl(content_item) ==
  IF Has(content_item, "image_url") /\ Has(content_item.image_url, "url")
  THEN content_item.image_url.url ELSE EmptyUrl

\* one scan result: a return value, a raise, or fall through with the local
Returned(v) == [st |-> "return", v |-> v, image_url |-> Unbound]
Raised == [st |-> "raise", v |-> UnboundLocalError, image_url |-> Unbound]
Fell(u) == [st |-> "next", v |-> None, image_url |-> u]

\* for content_item in reversed(message["content"]) of a user message
RECURSIVE ScanUserContent(_, _, _)
ScanUserContent(parts, k, image_url) ==
  IF k = 0 THEN Fell(image_url)
  ELSE IF parts[k].type = "image_url"
       THEN LET u == NestedUrl(parts[k])
            IN IF StartsWithPng(u) THEN Returned(AfterComma(u))
               ELSE ScanUserContent(parts, k - 1, u)
       ELSE ScanUserContent(parts, k - 1, image_url)

\* for content_item in reversed(message["output"]) of a function_call_output:
\* the startswith test is outside the type test and reads the local as it is
RECURSIVE ScanFunctionOutput(_, _, _)
ScanFunctionOutput(parts, k, image_url) ==
  IF k = 0 THEN Fell(image_url)
  ELSE LET u == IF parts[k].type = "image_url" THEN NestedUrl(parts[k])
                ELSE image_url
       IN IF u = Unbound THEN Raised
          ELSE IF StartsWithPng(u) THEN Returned(AfterComma(u))
          ELSE ScanFunctionOutput(parts, k - 1, u)

\* the body of "for message in reversed(messages)" for one message
ScanMessage(message, image_url) ==
  IF Has(message, "role") /\ message.role = "user"
     /\ Has(message, "content") /\ message.content.py = "list"
  THEN ScanUserContent(message.content.v, Len(message.content.v), image_url)
  ELSE IF Has(message, "type") /\ message.type = "computer_call_output"
          /\ Has(message, "output") /\ message.output.py = "dict"
  THEN LET output == message.output.v
       IN IF Has(output, "type") /\ output.type = "input_image"
          THEN LET u == Get(output, "image_url", EmptyUrl)
               IN IF StartsWithPng(u) THEN Returned(AfterComma(u)) ELSE Fell(u)
          ELSE Fell(image_url)
  ELSE IF Has(message, "type") /\ message.type = "function_call_output"
          /\ Has(message, "output") /\ message.output.py = "list"
  THEN ScanFunctionOutput(message.output.v, Len(message.output.v), image_url)
  ELSE Fell(image_url)

RECURSIVE ScanMessages(_, _, _)
ScanMessages(messages, k, image_url) ==
  IF k = 0 THEN None
  ELSE LET r == ScanMessage(messages[k], image_url)
       IN IF r.st = "next" THEN ScanMessages(messages, k - 1, r.image_url)
          ELSE r.v

\* the image of the last message that holds one, None, or UnboundLocalError
get_last_image_b64(messages) == ScanMessages(messages, Len(messages), Unbound)

\* ------------------------------------------------------------------------
\* What the collaborators of CoAct1.run can return
\* ------------------------------------------------------------------------
Task == "open app"
Subtask == "open app"

DelegationNames == {"delegate_to_programmer", "delegate_to_gui_operator"}
\* the tools of _create_orchestrator that are no delegation
IntrospectionNames == {"get_environment"}
\* the tools after which a run goes on and that are not the Programmer's
OtherNames == {"delegate_to_gui_operator"} \cup IntrospectionNames
ToolNames == DelegationNames \cup {"task_completed"} \cup IntrospectionNames

\* {}
EmptyDict == <<>>

\* a JSON text, by what json.loads makes of it
JsonText(value) == [parses |-> TRUE, value |-> value]
BadJson == [parses |-> FALSE]

\* the argument mapping a model writes for the tool
ModelArgs(name) ==
  IF name \in DelegationNames THEN [subtask |-> Subtask] ELSE EmptyDict

\* the JSON values a model can write as arguments: the mapping, or no mapping
JsonValues(name) == {Dict(ModelArgs(name)), List(<<Subtask>>)}

\* the function_call item of _process_generic_response: nested, the arguments
\* already parsed, no call_id
GenericFunctionCall(function_name, function_args) ==
  [type |-> "function_call",
   function |-> [name |-> function_name, arguments |-> function_args]]

\* a function_call item in the direct format: the arguments as the text the
\* model wrote, and the call_id the model gave (one per turn)
DirectFunctionCall(name, arguments, n) ==
  [type |-> "function_call", call_id |-> [call |-> n], name |-> name,
   arguments |-> arguments]

AssistantMessage(t) ==
  [type |-> "message", role |-> "assistant",
   content |-> List(<<[type |-> "output_text", text |-> <<t>>]>>)]

OrchestratorLoops == {"generic", "direct"}

\* the function_call items an Orchestrator on that loop can emit in turn n
FunctionCalls(loop, n) ==
  IF loop = "generic"
  THEN UNION {{GenericFunctionCall(name, a) : a \in JsonValues(name)} :
                name \in ToolNames}
  ELSE UNION {{DirectFunctionCall(name, Str(JsonText(a)), n) : a \in JsonValues(name)}
              \cup {DirectFunctionCall(name, Str(BadJson), n)} : name \in ToolNames}

ToolNameOf(call) == Get(call, "function", call).name

\* the answer of the Orchestrator's runtime to an introspection tool call
IntrospectionOutput(call) ==
  [type |-> "function_call_output", output |-> Str(<<"linux">>),
   call_id |-> Get(call, "call_id", [call |-> 0])]

\* the results one Orchestrator turn yields: a text answer alone; a text
\* answer and then one tool call (an introspection call comes with the answer
\* of the Orchestrator's runtime); or task_completed and a delegation in the
\* same answer
OrchestratorResults(loop, n) ==
  {<<[output |-> <<AssistantMessage("done")>>]>>}
  \cup {<<[output |-> <<AssistantMessage("plan")>>], [output |-> <<c>>]>> :
          c \in {x \in FunctionCalls(loop, n) :
                   ToolNameOf(x) \notin IntrospectionNames}}
  \cup {<<[output |-> <<AssistantMessage("plan"), c, IntrospectionOutput(c)>>]>> :
          c \in {x \in FunctionCalls(loop, n) :
                   ToolNameOf(x) \in IntrospectionNames}}
  \cup {<<[output |-> <<c, d>>]>> :
          c \in {x \in FunctionCalls(loop, n) :
                   /\ ToolNameOf(x) = "task_completed"
                   /\ Get(x, "function", x).arguments
                        \in {Dict(EmptyDict), Str(JsonText(Dict(EmptyDict)))}},
          d \in {x \in FunctionCalls(loop, n) :
                   /\ ToolNameOf(x) = "delegate_to_programmer"
                   /\ Get(x, "function", x).arguments
                        \in {Dict(ModelArgs("delegate_to_programmer")),
                             Str(JsonText(Dict(ModelArgs("delegate_to_programmer"))))}}}

\* lines 583-590 of run: the first function_call item of the results
RECURSIVE FirstInOutput(_, _)
FirstInOutput(output, k) ==
  IF k > Len(output) THEN NoItem
  ELSE IF Has(output[k], "type") /\ output[k].type = "function_call"
       THEN output[k]
       ELSE FirstInOutput(output, k + 1)

RECURSIVE FirstFunctionCall(_, _)
FirstFunctionCall(results, r) ==
  IF r > Len(results) THEN NoItem
  ELSE LET delegation == FirstInOutput(Get(results[r], "output", <<>>), 1)
       IN IF delegation # NoItem THEN delegation
          ELSE FirstFunctionCall(results, r + 1)

\* what a Programmer run adds to its history: a background command, its
\* acknowledgement (ProgrammerTools.run_command_in_background) and an answer
ProgrammerTranscripts ==
  {<<[type |-> "function_call", call_id |-> [call |-> 0],
      name |-> "run_command_in_background",
      arguments |-> Str(JsonText(Dict([command |-> "app"])))],
     [type |-> "function_call_output", call_id |-> [call |-> 0],
      output |-> Str(<<"Command '", "app", "' started in background.">>)],
     AssistantMessage("started app in background")>>}

\* what a GUI Operator run adds: an answer alone, or an action, the
\* screenshot taken after it and an answer
GuiOperatorTranscripts ==
  {<<AssistantMessage("nothing to do")>>}
  \cup {<<[type |-> "computer_call", call_id |-> [call |-> 0],
           action |-> [type |-> "keypress", keys |-> <<"enter">>]],
          [type |-> "computer_call_output", call_id |-> [call |-> 0],
           output |-> Dict([type |-> "input_image", image_url |-> DataUrl(b64)])],
          AssistantMessage("pressed enter")>> : b64 \in ActionScreens}

SubAgentTranscripts(agent) ==
  IF agent = "programmer" THEN ProgrammerTranscripts ELSE GuiOperatorTranscripts

\* what the completion service answers to the summarization request
SummaryContents == {"  started app in background "}
\* summary.strip()
Strip(content) ==
  IF content = "  started app in background " THEN "started app in background"
  ELSE content

\* ------------------------------------------------------------------------
\* CoAct1._summarize_interaction
\* ------------------------------------------------------------------------
SummaryPrompt == "Please summarize the following interaction history in one sentence for the Orchestrator."
CouldNotSummarize == "Could not summarize the interaction."
NoSummaryAvailable == "No summary available."

\* "image_url" in json.dumps(item): the text occurs as a key or as the type
\* of a content part of the item
PartMentionsImageUrl(part) ==
  Has(part, "image_url") \/ (Has(part, "type") /\ part.type = "image_url")

MentionsImageUrl(item) ==
  \/ Has(item, "image_url")
  \/ /\ Has(item, "content")
     /\ item.content.py = "list"
     /\ \E k \in 1..Len(item.content.v) : PartMentionsImageUrl(item.content.v[k])
  \/ /\ Has(item, "output")
     /\ \/ /\ item.output.py = "dict"
           /\ PartMentionsImageUrl(item.output.v)
        \/ /\ item.output.py = "list"
           /\ \E k \in 1..Len(item.output.v) : PartMentionsImageUrl(item.output.v[k])

\* filtered_history: the items of history that do not mention image_url
RECURSIVE FilteredHistory(_)
FilteredHistory(history) ==
  IF history = <<>> THEN <<>>
  ELSE (IF MentionsImageUrl(Head(history)) THEN <<>> ELSE <<Head(history)>>)
       \o FilteredHistory(Tail(history))

\* if screenshot_b64: (neither None nor "")
Truthy(b64) == b64 # None /\ b64 # ""

\* the history serialised as it is, screenshots included
SummaryMessagesUnfiltered(history, screenshot_b64) ==
  <<[role |-> "user",
     content |-> List(
       <<[type |-> "text", text |-> <<"prompt", "\n\nHistory:\n", history>>]>>
       \o (IF screenshot_b64 # "None" /\ screenshot_b64 # ""
           THEN <<[type |-> "image_url",
                   image_url |-> [url |-> [prefix |-> "data:image/png;base64,",
                                           data |-> screenshot_b64]]]>>
           ELSE <<>>))]>>

\* summary_messages
SummaryMessages(history, screenshot_b64) ==
  <<[role |-> "user",
     content |-> List(
       <<TextPart(<<SummaryPrompt, "\n\nHistory:\n", FilteredHistory(history)>>)>>
       \o (IF Truthy(screenshot_b64) THEN <<ImagePart(screenshot_b64)>> ELSE <<>>))]>>

\* the except clause returning the fallback of the empty answer
SummaryOfWrongFallback(outcome) ==
  Strip(IF outcome.raises \/ outcome.content = None THEN NoSummaryAvailable
        ELSE outcome.content)

\* the value _summarize_interaction returns, given what the completion call
\* did: raised, or answered with a content (None when the answer has none)
SummaryOf(outcome) ==
  IF outcome.raises THEN CouldNotSummarize
  ELSE Strip(IF outcome.content = None THEN NoSummaryAvailable ELSE outcome.content)

\* ------------------------------------------------------------------------
\* CoAct1.run
\* ------------------------------------------------------------------------
VARIABLES
  pc,                      \* where run is: at an await, or how it ended
  i,                       \* iterations of "for i in range(10)" begun
  orchestrator_loop,       \* the agent loop the Orchestrator's model selects
  orchestrator_history,
  delegation,
  tool_name,
  subtask,
  sub_agent,
  sub_agent_history,
  summary_screenshot_b64,
  summary_messages,        \* the request of the last summarization call
  summary,
  exception,               \* the exception run raised, None if none
  \* observations of the run, read by no step of it
  orchestrator_results,    \* what each call of self.orchestrator.run yielded
  sub_agent_runs,          \* calls of sub_agent.run so far
  summarize_calls,         \* calls of litellm.acompletion for a summary so far
  summary_raised,          \* whether the last of them raised
  round_events,            \* the steps of the current iteration, in order
  round_start_history      \* orchestrator_history when the iteration began

\* one ComposedGroundedConfig instance and the predict_step in progress
VARIABLES
  step_pc,                 \* where predict_step is
  desc2xy,                 \* self.desc2xy
  grounding_agents,        \* self.grounding_agents
  last_before_image,       \* self.last_before_image
  messages,                \* the history handed to predict_step
  model,                   \* the model identifier handed to it
  completion_messages,     \* the prompt of the thinking model
  last_image_b64,
  failed_coords,
  messages_with_descriptions,
  thinking_output_items,
  element_descriptions,
  desc_k,                  \* position of "for desc in element_descriptions"
  attempt,                 \* position of "for attempt in range(3)"
  final_output_items,
  \* observations of the instance, read by no step of it
  invocations,             \* calls of predict_step so far
  grounding_calls,         \* the predict_click calls of this invocation
  desc2xy_before,          \* desc2xy when this invocation began
  step_exception,          \* the exception the last call raised, None if none
  computer_handler,        \* the handler as line 210 read it: None if left unread
  captured,                \* what computer_handler.screenshot() did, if called
  thinking_calls,          \* calls of litellm.acompletion so far
  click,                   \* the predict_click call made on the instance
  previous,                \* what the invocation before this one resolved
  programmer,              \* a run of the Programmer: position, transcript, detached tasks
  twin,                    \* the same run given the same answers, its detached
                           \* commands ending as they may
  \* one call into a library routine each, looked at on its own
  gui_operator,            \* the GUI Operator's computer tool and what it reached
  venus,                   \* a UIVenusGroundModel.predict_click call
  generic,                 \* a GenericConfig.predict_step call
  lookup                   \* both get_last_image_b64 copies on one history

grounded_vars ==
  <<step_pc, desc2xy, grounding_agents, last_before_image, messages,
    last_image_b64, failed_coords, messages_with_descriptions,
    thinking_output_items, element_descriptions, desc_k, attempt,
    final_output_items, invocations, grounding_calls, desc2xy_before, previous,
    model, completion_messages, step_exception, computer_handler, captured,
    thinking_calls, click>>

programmer_vars == <<programmer, twin>>

library_vars == <<gui_operator, venus, generic, lookup>>

coact_vars ==
  <<pc, i, orchestrator_loop, orchestrator_history, delegation, tool_name,
    subtask, sub_agent, sub_agent_history, summary_screenshot_b64,
    summary_messages, summary, exception, orchestrator_results,
    sub_agent_runs, summarize_calls, summary_raised, round_events,
    round_start_history>>

vars == <<pc, i, orchestrator_loop, orchestrator_history, delegation, tool_name,
          subtask, sub_agent, sub_agent_history, summary_screenshot_b64,
          summary_messages, summary, exception, orchestrator_results,
          sub_agent_runs, summarize_calls, summary_raised, round_events,
          round_start_history, grounded_vars, programmer_vars, library_vars>>

\* None where a pair of coordinates (or nothing) is held
NoXY == <<>>

\* no run of the Programmer looked at
NoRun == [pc |-> "none", history |-> <<>>, tasks |-> <<>>, returned |-> <<>>, calls |-> 0]

NoProgrammerRun == programmer = NoRun /\ twin = NoRun

\* no library routine called
NoCall == [pc |-> "none"]

NoLibraryCall ==
  gui_operator = NoCall /\ venus = NoCall /\ generic = NoCall /\ lookup = NoCall

\* a ComposedGroundedConfig just constructed (lines 168-171), no predict_step
\* begun
Constructed ==
  /\ step_pc = "idle"
  /\ desc2xy = EmptyDict
  /\ grounding_agents = EmptyDict
  /\ last_before_image = None
  /\ messages = <<>>
  /\ last_image_b64 = None
  /\ failed_coords = <<>>
  /\ messages_with_descriptions = <<>>
  /\ thinking_output_items = <<>>
  /\ element_descriptions = <<>>
  /\ desc_k = 0
  /\ attempt = 0
  /\ final_output_items = <<>>
  /\ invocations = 0
  /\ grounding_calls = <<>>
  /\ desc2xy_before = EmptyDict
  /\ previous = [image |-> None, resolved |-> EmptyDict]
  /\ model = <<>>
  /\ completion_messages = <<>>
  /\ step_exception = None
  /\ computer_handler = None
  /\ captured = "no"
  /\ thinking_calls = 0
  /\ click = <<>>

PlanningPrompt ==
  [role |-> "user",
   content |-> Str("What is the next subtask based on the current progress? (or you can call task_completed)")]

InitialMessage(task, initial_screenshot_b64) ==
  [role |-> "user",
   content |-> List(<<TextPart(<<task, "\n\nHere is the current screen. What is the next subtask?">>),
                      ImagePart(initial_screenshot_b64)>>)]

\* f"call_{hash(str(delegation))}"
HashCallId(d) == [call_hash |-> d]

IsFunctionCall(item) == Has(item, "type") /\ item.type = "function_call"
IsToolResult(item) == Has(item, "type") /\ item.type = "function_call_output"

CountCalls(history, names) ==
  Cardinality({k \in 1..Len(history) :
                 IsFunctionCall(history[k]) /\ ToolNameOf(history[k]) \in names})

SummaryFailures(history) ==
  Cardinality({k \in 1..Len(history) :
                 /\ IsToolResult(history[k])
                 /\ history[k].output.v[1].text[2] = CouldNotSummarize})

\* the state after lines 553-570: the history seeded with task and screenshot
Init ==
  /\ pc = "for"
  /\ i = 0
  /\ orchestrator_loop \in OrchestratorLoops
  /\ \E initial_screenshot_b64 \in InitialScreens :
       orchestrator_history = <<InitialMessage(Task, initial_screenshot_b64)>>
  /\ delegation = NoItem
  /\ tool_name = None
  /\ subtask = None
  /\ sub_agent = None
  /\ sub_agent_history = <<>>
  /\ summary_screenshot_b64 = None
  /\ summary_messages = <<>>
  /\ summary = None
  /\ exception = None
  /\ orchestrator_results = <<>>
  /\ sub_agent_runs = 0
  /\ summarize_calls = 0
  /\ summary_raised = FALSE
  /\ round_events = <<>>
  /\ round_start_history = <<>>
  /\ Constructed
  /\ NoProgrammerRun
  /\ NoLibraryCall

\* list.insert(0, item)
InsertFirst(history, item) == <<item>> \o history

\* list.append
AppendItem(history, item) == Append(history, item)

\* lines 572-583: the next iteration begins and appends its prompt
AppendPrompt ==
  /\ UNCHANGED grounded_vars
  /\ UNCHANGED programmer_vars
  /\ UNCHANGED library_vars
  /\ pc = "for"
  /\ i < MaxSteps
  /\ i' = i + 1
  /\ orchestrator_history' = AppendItem(orchestrator_history, PlanningPrompt)
  /\ delegation' = NoItem
  /\ round_events' = <<"prompt">>
  /\ round_start_history' = orchestrator_history
  /\ pc' = "plan"
  /\ UNCHANGED <<orchestrator_loop, tool_name, subtask, sub_agent,
                 sub_agent_history, summary_screenshot_b64, summary_messages,
                 summary, exception, orchestrator_results, sub_agent_runs,
                 summarize_calls, summary_raised>>

\* line 572: range(10) is exhausted and run returns
StepLimit ==
  /\ UNCHANGED grounded_vars
  /\ UNCHANGED programmer_vars
  /\ UNCHANGED library_vars
  /\ pc = "for"
  /\ i >= MaxSteps
  /\ pc' = "STEP_LIMIT_EXCEEDED"
  /\ UNCHANGED <<i, orchestrator_loop, orchestrator_history, delegation,
                 tool_name, subtask, sub_agent, sub_agent_history,
                 summary_screenshot_b64, summary_messages, summary, exception,
                 orchestrator_results, sub_agent_runs, summarize_calls,
                 summary_raised, round_events, round_start_history>>

\* continue in place of break at line 594
AfterOrchestratorContinue(d) == IF d = NoItem THEN "for" ELSE "delegate"

\* lines 592-594: without a delegation run ends, with one it goes on
AfterOrchestrator(d) == IF d = NoItem THEN "NO_DELEGATION" ELSE "delegate"

\* lines 584-594: one Orchestrator turn; without a function_call run returns
OrchestratorTurn ==
  /\ UNCHANGED grounded_vars
  /\ UNCHANGED programmer_vars
  /\ UNCHANGED library_vars
  /\ pc = "plan"
  /\ \E results \in OrchestratorResults(orchestrator_loop, i) :
       LET d == FirstFunctionCall(results, 1)
       IN /\ d # NoItem /\ ToolNameOf(d) \in OtherNames
               => CountCalls(orchestrator_history, OtherNames) < MaxOtherCalls
          /\ delegation' = d
          /\ pc' = AfterOrchestrator(d)
          /\ orchestrator_results' = Append(orchestrator_results, results)
  /\ round_events' = Append(round_events, "orchestrator")
  /\ UNCHANGED <<i, orchestrator_loop, orchestrator_history, tool_name, subtask,
                 sub_agent, sub_agent_history, summary_screenshot_b64,
                 summary_messages, summary, exception, sub_agent_runs,
                 summarize_calls, summary_raised, round_start_history>>

\* lines 597-602: the name, the arguments and the subtask of the delegation,
\* or the exception that json.loads or arguments.get raises
ParseDelegation(d) ==
  LET function_info == Get(d, "function", d)
      name == Get(function_info, "name", None)
      raw == Get(function_info, "arguments", Dict(EmptyDict))
  IN IF raw.py = "str" /\ ~raw.v.parses
     THEN [exception |-> "JSONDecodeError", tool_name |-> name, subtask |-> None]
     ELSE LET arguments == IF raw.py = "str" THEN raw.v.value ELSE raw
          IN IF arguments.py # "dict"
             THEN [exception |-> "AttributeError", tool_name |-> name,
                   subtask |-> None]
             ELSE [exception |-> None, tool_name |-> name,
                   subtask |-> Get(arguments.v, "subtask", "")]

\* the elif branch of the GUI Operator left out
SubAgentForProgrammerOnly(name) ==
  IF name = "delegate_to_programmer" THEN "programmer" ELSE None

\* lines 610-619: the sub-agent the tool name selects
SubAgentFor(name) ==
  IF name = "delegate_to_programmer" THEN "programmer"
  ELSE IF name = "delegate_to_gui_operator" THEN "gui_operator"
  ELSE None

\* lines 606-619: where run goes after the delegation is appended
AfterDelegation(name) ==
  IF name = "task_completed" THEN "DONE"
  ELSE IF SubAgentFor(name) = None THEN "for"
  ELSE "execute"

\* lines 596-619: parse the delegation, append it, then complete, skip the
\* round or select the sub-agent
Delegate ==
  /\ UNCHANGED grounded_vars
  /\ UNCHANGED programmer_vars
  /\ UNCHANGED library_vars
  /\ pc = "delegate"
  /\ LET p == ParseDelegation(delegation)
     IN /\ tool_name' = p.tool_name
        /\ IF p.exception # None
           THEN /\ exception' = p.exception
                /\ pc' = "RAISED"
                /\ UNCHANGED <<orchestrator_history, subtask, sub_agent>>
           ELSE /\ subtask' = p.subtask
                /\ orchestrator_history' = AppendItem(orchestrator_history, delegation)
                /\ exception' = exception
                /\ pc' = AfterDelegation(p.tool_name)
                /\ sub_agent' = IF p.tool_name = "task_completed" THEN sub_agent
                                ELSE SubAgentFor(p.tool_name)
  /\ round_events' = Append(round_events, "delegation")
  /\ UNCHANGED <<i, orchestrator_loop, delegation, sub_agent_history,
                 summary_screenshot_b64, summary_messages, summary,
                 orchestrator_results, sub_agent_runs, summarize_calls,
                 summary_raised, round_start_history>>

\* the image context never handed over
SeedHistoryTextOnly(text, current_image_b64) ==
  <<[role |-> "user", content |-> Str(text)]>>

\* lines 626-640: the fresh history of the sub-agent
SeedHistory(text, current_image_b64) ==
  IF Truthy(current_image_b64)
  THEN <<[role |-> "user",
          content |-> List(<<TextPart(<<text, "\n\nHere is the current screen state:">>),
                             ImagePart(current_image_b64)>>)]>>
  ELSE <<[role |-> "user", content |-> Str(text)]>>

\* lines 621-643: seed the sub-agent and run it to its end
RunSubAgent ==
  /\ UNCHANGED grounded_vars
  /\ UNCHANGED programmer_vars
  /\ UNCHANGED library_vars
  /\ pc = "execute"
  /\ LET current_image_b64 == get_last_image_b64(orchestrator_history)
     IN IF current_image_b64 = UnboundLocalError
        THEN /\ exception' = UnboundLocalError
             /\ pc' = "RAISED"
             /\ UNCHANGED <<sub_agent_history, sub_agent_runs>>
        ELSE /\ \E transcript \in SubAgentTranscripts(sub_agent) :
                  sub_agent_history' =
                    SeedHistory(subtask, current_image_b64) \o transcript
             /\ sub_agent_runs' = sub_agent_runs + 1
             /\ pc' = "summarize"
             /\ exception' = exception
  /\ round_events' = Append(round_events, "sub_agent")
  /\ UNCHANGED <<i, orchestrator_loop, orchestrator_history, delegation,
                 tool_name, subtask, sub_agent, summary_screenshot_b64,
                 summary_messages, summary, orchestrator_results,
                 summarize_calls, summary_raised, round_start_history>>

\* lines 645-651 and _summarize_interaction: the last screenshot of the
\* transcript, the request, and the answer or the placeholder
Summarize ==
  /\ UNCHANGED grounded_vars
  /\ UNCHANGED programmer_vars
  /\ UNCHANGED library_vars
  /\ pc = "summarize"
  /\ LET b64 == get_last_image_b64(sub_agent_history)
     IN IF b64 = UnboundLocalError
        THEN /\ exception' = UnboundLocalError
             /\ pc' = "RAISED"
             /\ UNCHANGED <<summary_screenshot_b64, summary_messages, summary,
                            summarize_calls, summary_raised>>
        ELSE /\ summary_screenshot_b64' = b64
             /\ summary_messages' = SummaryMessages(sub_agent_history, b64)
             /\ \E outcome \in
                    {[raises |-> FALSE, content |-> c] : c \in SummaryContents}
                    \cup {[raises |-> TRUE, content |-> None]} :
                  /\ outcome.raises
                       => SummaryFailures(orchestrator_history) < MaxSummaryFailures
                  /\ summary' = SummaryOf(outcome)
                  /\ summary_raised' = outcome.raises
             /\ summarize_calls' = summarize_calls + 1
             /\ pc' = "result"
             /\ exception' = exception
  /\ round_events' = Append(round_events, "summarize")
  /\ UNCHANGED <<i, orchestrator_loop, orchestrator_history, delegation,
                 tool_name, subtask, sub_agent, sub_agent_history,
                 orchestrator_results, sub_agent_runs, round_start_history>>

\* line 666: delegation.get("call_id", f"call_{hash(str(delegation))}")
ResultCallId(d) == Get(d, "call_id", HashCallId(d))

\* the screenshot part left out of the result
ToolResultWithoutImage(d, text, screenshot_b64) ==
  [type |-> "function_call_output",
   call_id |-> Get(d, "call_id", [call_hash |-> d]),
   output |-> List(
     <<[type |-> "text",
        text |-> <<"Sub-task completed. Summary: ", text,
                   "\n\nHere is the final screen state. Evaluate whether the sub-task was successful and determine the next action.">>]>>)]

\* lines 654-668: the function_call_output item of the round
ToolResult(d, text, screenshot_b64) ==
  [type |-> "function_call_output",
   call_id |-> ResultCallId(d),
   output |-> List(
     <<TextPart(<<"Sub-task completed. Summary: ", text,
                  "\n\nHere is the final screen state. Evaluate whether the sub-task was successful and determine the next action.">>)>>
     \o (IF Truthy(screenshot_b64) THEN <<ImagePart(screenshot_b64)>> ELSE <<>>))]

\* lines 653-668: append the result of the round to the Orchestrator history
AppendToolResult ==
  /\ UNCHANGED grounded_vars
  /\ UNCHANGED programmer_vars
  /\ UNCHANGED library_vars
  /\ pc = "result"
  /\ orchestrator_history' =
       AppendItem(orchestrator_history,
                  ToolResult(delegation, summary, summary_screenshot_b64))
  /\ round_events' = Append(round_events, "tool_result")
  /\ pc' = "for"
  /\ UNCHANGED <<i, orchestrator_loop, delegation, tool_name, subtask, sub_agent,
                 sub_agent_history, summary_screenshot_b64, summary_messages,
                 summary, exception, orchestrator_results, sub_agent_runs,
                 summarize_calls, summary_raised, round_start_history>>

Next ==
  \/ AppendPrompt
  \/ StepLimit
  \/ OrchestratorTurn
  \/ Delegate
  \/ RunSubAgent
  \/ Summarize
  \/ AppendToolResult

Spec == Init /\ [][Next]_vars

\* asyncio runs the coroutine on while a step of it can be taken
LiveSpec == Spec /\ WF_vars(Next)

\* ------------------------------------------------------------------------
\* Vocabulary of the properties, over what the Orchestrator yielded
\* ------------------------------------------------------------------------
IsPrefix(s, t) == Len(s) <= Len(t) /\ SubSeq(t, 1, Len(s)) = s

Last(s) == s[Len(s)]

RECURSIVE AllItems(_)
AllItems(results) ==
  IF results = <<>> THEN <<>>
  ELSE Get(Head(results), "output", <<>>) \o AllItems(Tail(results))

\* the function_call items one turn yielded, in the order it yielded them
EmittedCalls(results) == SelectSeq(AllItems(results), IsFunctionCall)

Turns == Len(orchestrator_results)

\* the tool call of a turn is the first function_call item it yielded
HasCall(t) == EmittedCalls(orchestrator_results[t]) # <<>>
CallOf(t) == Head(EmittedCalls(orchestrator_results[t]))

\* the arguments are a mapping, or a text that is the JSON of a mapping
WellFormedArguments(call) ==
  LET a == Get(Get(call, "function", call), "arguments", Dict(EmptyDict))
  IN \/ a.py = "dict"
     \/ a.py = "str" /\ a.v.parses /\ a.v.value.py = "dict"

ValidDelegationTurn(t) ==
  /\ HasCall(t)
  /\ ToolNameOf(CallOf(t)) \in DelegationNames
  /\ WellFormedArguments(CallOf(t))

AlwaysDelegated == \A t \in 1..Turns : ValidDelegationTurn(t)

\* the last turn has been acted on (run is past lines 596-619)
LastTurnHandled == Turns >= 1 /\ pc # "delegate"

NormalEnds == {"DONE", "STEP_LIMIT_EXCEEDED", "NO_DELEGATION"}

\* what the current iteration has appended so far
RoundSegment ==
  SubSeq(orchestrator_history, Len(round_start_history) + 1,
         Len(orchestrator_history))

CountResults(history) ==
  Cardinality({k \in 1..Len(history) : IsToolResult(history[k])})

InRound(event) == \E k \in 1..Len(round_events) : round_events[k] = event

\* ------------------------------------------------------------------------
\* Properties
\* ------------------------------------------------------------------------

\* C1: with an Orchestrator that answers every turn with a valid
\* delegate_to_programmer or delegate_to_gui_operator call, run performs
\* exactly 10 rounds (10 Orchestrator turns, each followed by one sub-agent
\* run and one summary) and returns without raising; the Orchestrator is
\* never invoked more than 10 times.
C1_StepCap ==
  /\ Turns <= 10
  /\ AlwaysDelegated =>
       /\ pc \notin {"DONE", "NO_DELEGATION", "RAISED"}
       /\ exception = None
       /\ pc = "for" =>
            /\ i = Turns
            /\ sub_agent_runs = Turns
            /\ summarize_calls = Turns
       /\ pc = "STEP_LIMIT_EXCEEDED" =>
            /\ Turns = 10
            /\ i = 10
            /\ sub_agent_runs = 10
            /\ summarize_calls = 10

C1_Witness ==
  /\ pc = "STEP_LIMIT_EXCEEDED"
  /\ AlwaysDelegated
  /\ Turns = 10
  /\ CountCalls(orchestrator_history, {"delegate_to_gui_operator"}) = 1

\* C2: if the first task_completed call comes on turn k and every earlier
\* turn was a valid delegation to a known sub-agent, run performs exactly k
\* rounds and ends in DONE, with no sub-agent run and no summarization call
\* in round k.
C2_TaskCompletedEnds ==
  ( /\ LastTurnHandled
    /\ HasCall(Turns)
    /\ ToolNameOf(CallOf(Turns)) = "task_completed"
    /\ \A t \in 1..(Turns - 1) : ValidDelegationTurn(t) )
  => /\ pc = "DONE"
     /\ exception = None
     /\ i = Turns
     /\ sub_agent_runs = Turns - 1
     /\ summarize_calls = Turns - 1

\* C3: every execution of run eventually reaches a terminal state, which is
\* one of DONE, STEP_LIMIT_EXCEEDED and NO_DELEGATION.
C3_Terminates == <>(pc \in NormalEnds)

\* C4: in every round the steps occur in the order prompt, Orchestrator turn,
\* delegation, sub-agent run, summarization, ToolResult; a delegation to a
\* known sub-agent causes exactly one sub-agent run, one summarization call
\* and one ToolResult, all before the next prompt is appended; at most one
\* delegation is consumed per round.
RoundOrder ==
  <<"prompt", "orchestrator", "delegation", "sub_agent", "summarize", "tool_result">>

C4_RoundOrder ==
  /\ IsPrefix(round_events, RoundOrder)
  /\ Len(SelectSeq(RoundSegment, IsFunctionCall)) <= 1
  /\ pc = "for" /\ i >= 1 =>
       /\ sub_agent_runs = CountCalls(orchestrator_history, DelegationNames)
       /\ summarize_calls = CountCalls(orchestrator_history, DelegationNames)
       /\ CountResults(orchestrator_history)
            = CountCalls(orchestrator_history, DelegationNames)
       /\ IF ToolNameOf(CallOf(Turns)) \in DelegationNames
          THEN round_events = RoundOrder
          ELSE round_events = SubSeq(RoundOrder, 1, 3)

C4_Witness ==
  /\ pc = "for"
  /\ i >= 2
  /\ sub_agent = "gui_operator"
  /\ round_events = RoundOrder

\* C5: a delegation call whose arguments are no valid JSON text, or no
\* mapping, does not make run raise: no sub-agent is run for that round and
\* run goes on with the next round.
C5_MalformedSkipped ==
  ( /\ LastTurnHandled
    /\ HasCall(Turns)
    /\ ToolNameOf(CallOf(Turns)) \in DelegationNames
    /\ ~WellFormedArguments(CallOf(Turns)) )
  => /\ exception = None
     /\ pc \in {"for", "plan", "STEP_LIMIT_EXCEEDED"}
     /\ ~InRound("sub_agent")

\* C6: a tool call whose name is none of delegate_to_programmer,
\* delegate_to_gui_operator, task_completed makes the round be skipped: no
\* sub-agent run, no summarization call, no exception, and the loop goes on
\* to the next round while fewer than 10 were performed.
C6_UnknownSkipped ==
  ( /\ LastTurnHandled
    /\ HasCall(Turns)
    /\ ToolNameOf(CallOf(Turns)) \notin DelegationNames \cup {"task_completed"} )
  => /\ exception = None
     /\ pc \in {"for", "plan", "STEP_LIMIT_EXCEEDED"}
     /\ ~InRound("sub_agent")
     /\ ~InRound("summarize")

\* C7: an Orchestrator turn without a function_call item stops run at once
\* and without raising: no sub-agent run, no summarization call, and the
\* planning prompt is the only item the round added to the history.
C7_NoDelegationStops ==
  (Turns >= 1 /\ ~HasCall(Turns))
  => /\ pc = "NO_DELEGATION"
     /\ exception = None
     /\ round_events = <<"prompt", "orchestrator">>
     /\ orchestrator_history = Append(round_start_history, PlanningPrompt)

C7_Witness ==
  /\ pc = "NO_DELEGATION"
  /\ i >= 2
  /\ ~HasCall(Turns)

\* C8: when the summarization call raises, _summarize_interaction returns
\* the fixed placeholder, the round still appends its ToolResult with the
\* placeholder and the final screenshot, and run goes on to the next round
\* (after the tenth round the loop is over and run returns).
C8_SummaryFailure ==
  (summary_raised /\ Last(round_events) \in {"summarize", "tool_result"})
  => /\ summary = CouldNotSummarize
     /\ exception = None
     /\ pc \in {"result", "for", "STEP_LIMIT_EXCEEDED"}
     /\ pc = "STEP_LIMIT_EXCEEDED" => i = 10
     /\ pc = "result" => ENABLED AppendToolResult
     /\ pc \in {"for", "STEP_LIMIT_EXCEEDED"} =>
          /\ IsToolResult(Last(orchestrator_history))
          /\ Last(orchestrator_history).output
               = List(<<TextPart(<<"Sub-task completed. Summary: ", CouldNotSummarize,
                                   "\n\nHere is the final screen state. Evaluate whether the sub-task was successful and determine the next action.">>),
                        ImagePart(summary_screenshot_b64)>>)
          /\ summary_screenshot_b64 \in Images
          /\ i < 10 => pc = "for" /\ ENABLED AppendPrompt

C8_Witness ==
  /\ pc = "plan"
  /\ summary_raised
  /\ IsToolResult(Last(round_start_history))
  /\ Last(round_start_history).output.v[1].text[2] = CouldNotSummarize

\* C9: every ToolResult that run appended carries the call id of the
\* delegation ToolCall appended before it in the same round.
NoId == [absent |-> TRUE]
IdOf(item) == Get(item, "call_id", Get(item, "id", NoId))

C9_ResultReferencesCall ==
  \A k \in 1..Len(orchestrator_history) :
    IsToolResult(orchestrator_history[k])
    => /\ k > 1
       /\ IsFunctionCall(orchestrator_history[k - 1])
       /\ IdOf(orchestrator_history[k - 1]) # NoId
       /\ orchestrator_history[k].call_id = IdOf(orchestrator_history[k - 1])

\* C10: the Orchestrator history is append-only: every earlier history is a
\* prefix of the current one; and each round appends, in this order, one
\* planning prompt, the delegation ToolCall if the Orchestrator emitted one,
\* and one ToolResult if and only if a known sub-agent was run.
RoundShape ==
  pc \in {"for"} \cup NormalEnds /\ i >= 1 =>
    /\ IsPrefix(round_start_history, orchestrator_history)
    /\ Len(RoundSegment) = 1 + (IF HasCall(Turns) THEN 1 ELSE 0)
                             + (IF InRound("sub_agent") THEN 1 ELSE 0)
    /\ RoundSegment[1] = PlanningPrompt
    /\ HasCall(Turns) => RoundSegment[2] = CallOf(Turns)
    /\ InRound("sub_agent") => /\ HasCall(Turns)
                               /\ IsToolResult(RoundSegment[3])

IsImagePart(part) == Has(part, "type") /\ part.type = "image_url"

\* the screenshots of the image parts of a content list, in order
PartImages(parts) ==
  [k \in 1..Len(SelectSeq(parts, IsImagePart)) |->
     SelectSeq(parts, IsImagePart)[k].image_url.url.data]

\* the screenshots an item of a history holds, in order
ItemImages(item) ==
  IF Has(item, "content") /\ item.content.py = "list"
  THEN PartImages(item.content.v)
  ELSE IF Has(item, "output") /\ item.output.py = "list"
  THEN PartImages(item.output.v)
  ELSE IF Has(item, "output") /\ item.output.py = "dict"
          /\ Has(item.output.v, "image_url")
  THEN <<item.output.v.image_url.data>>
  ELSE <<>>

RECURSIVE Screenshots(_)
Screenshots(history) ==
  IF history = <<>> THEN <<>>
  ELSE ItemImages(Head(history)) \o Screenshots(Tail(history))

\* the content parts of an item that are text, in order
TextParts(item) ==
  IF Has(item, "content") /\ item.content.py = "list"
  THEN SelectSeq(item.content.v, LAMBDA part : part.type = "text")
  ELSE <<>>

\* ------------------------------------------------------------------------
\* _summarize_interaction on its own: any transcript, any final screenshot
\* ------------------------------------------------------------------------
\* items of the transcript handed to one call
MaxTranscriptLen == 2

TranscriptItems ==
  {SeedHistory(Subtask, b64)[1] : b64 \in {None, "A"}}
  \cup {AssistantMessage("pressed enter")}
  \cup {[type |-> "computer_call_output", call_id |-> [call |-> 0],
         output |-> Dict([type |-> "input_image", image_url |-> DataUrl("B")])]}
  \cup {[type |-> "function_call_output", call_id |-> [call |-> 0],
         output |-> Str(<<"Command '", "app", "' started in background.">>)]}
  \cup {[type |-> "function_call_output", call_id |-> [call |-> 0],
         output |-> List(<<TextPart(<<"see the screen">>), ImagePart("B")>>)]}

RECURSIVE Transcripts(_)
Transcripts(n) ==
  IF n = 0 THEN {<<>>}
  ELSE Transcripts(n - 1)
       \cup {Append(t, item) : t \in {x \in Transcripts(n - 1) : Len(x) = n - 1},
                               item \in TranscriptItems}

\* what a caller can pass as screenshot_b64
ScreenshotArguments == {None, ""} \cup Images

SummarizeInit ==
  /\ pc = "summarize_call"
  /\ sub_agent_history \in Transcripts(MaxTranscriptLen)
  /\ summary_screenshot_b64 \in ScreenshotArguments
  /\ i = 0
  /\ orchestrator_loop = "direct"
  /\ orchestrator_history = <<>>
  /\ delegation = NoItem
  /\ tool_name = None
  /\ subtask = None
  /\ sub_agent = None
  /\ summary_messages = <<>>
  /\ summary = None
  /\ exception = None
  /\ orchestrator_results = <<>>
  /\ sub_agent_runs = 0
  /\ summarize_calls = 0
  /\ summary_raised = FALSE
  /\ round_events = <<>>
  /\ round_start_history = <<>>
  /\ Constructed
  /\ NoProgrammerRun
  /\ NoLibraryCall

\* lines 508-549: one call of _summarize_interaction
SummarizeInteraction ==
  /\ UNCHANGED grounded_vars
  /\ UNCHANGED programmer_vars
  /\ UNCHANGED library_vars
  /\ pc = "summarize_call"
  /\ summary_messages' = SummaryMessages(sub_agent_history, summary_screenshot_b64)
  /\ \E outcome \in {[raises |-> FALSE, content |-> c] : c \in SummaryContents \cup {None}}
                    \cup {[raises |-> TRUE, content |-> None]} :
       /\ summary' = SummaryOf(outcome)
       /\ summary_raised' = outcome.raises
  /\ summarize_calls' = summarize_calls + 1
  /\ pc' = "summarize_return"
  /\ UNCHANGED <<i, orchestrator_loop, orchestrator_history, delegation,
                 tool_name, subtask, sub_agent, sub_agent_history,
                 summary_screenshot_b64, exception, orchestrator_results,
                 sub_agent_runs, round_events, round_start_history>>

SummarizeNext == SummarizeInteraction

SummarizeSpec == SummarizeInit /\ [][SummarizeNext]_vars

\* ------------------------------------------------------------------------
\* Properties of the sub-agent hand-over
\* ------------------------------------------------------------------------

\* C11: at the start of every sub-agent run the sub-agent history is a fresh
\* history of exactly one user message holding the subtask text and the most
\* recent screenshot of the Orchestrator history at that moment; it holds no
\* item of an earlier sub-agent's transcript, and the Orchestrator history
\* gains no item while the sub-agent runs.
C11_FreshSeed ==
  [][(pc = "execute" /\ pc' = "summarize") =>
       /\ orchestrator_history' = orchestrator_history
       /\ Screenshots(orchestrator_history) # <<>>
       /\ LET seed == sub_agent_history'[1]
              transcript == SubSeq(sub_agent_history', 2, Len(sub_agent_history'))
          IN /\ seed.role = "user"
             /\ Len(TextParts(seed)) = 1
             /\ TextParts(seed)[1].text[1] = subtask
             /\ ItemImages(seed) = <<Last(Screenshots(orchestrator_history))>>
             /\ transcript \in SubAgentTranscripts(sub_agent)
             /\ \A k \in 1..Len(transcript) :
                  ~(Has(transcript[k], "role") /\ transcript[k].role = "user")]_vars

C11_Witness ==
  /\ pc = "summarize"
  /\ sub_agent = "programmer"
  /\ sub_agent_runs >= 2
  /\ ItemImages(sub_agent_history[1]) = <<"B">>
  /\ Screenshots(orchestrator_history) = <<"A", "B">>

\* C12: the screenshot attached to the ToolResult of a round is the last
\* screenshot of that round's sub-agent transcript, and the screenshot that
\* seeded the sub-agent when the transcript holds none; a Programmer run that
\* only starts a background command yields a ToolResult with the summary and
\* the image it was seeded with (the initial image A in the first round).
C12_ResultScreenshot ==
  (pc = "for" /\ InRound("tool_result")) =>
    LET result == Last(orchestrator_history)
        seed == sub_agent_history[1]
        produced == Screenshots(Tail(sub_agent_history))
    IN /\ IsToolResult(result)
       /\ ItemImages(result)
            = <<IF produced # <<>> THEN Last(produced) ELSE ItemImages(seed)[1]>>
       /\ result.output.v[1].text[2] = summary
       /\ sub_agent = "programmer" =>
            /\ ItemImages(result) = <<Last(Screenshots(round_start_history))>>
            /\ i = 1 => ItemImages(result) = <<"A">>

C12_Witness ==
  /\ pc = "for"
  /\ InRound("tool_result")
  /\ i = 1
  /\ sub_agent = "programmer"
  /\ summary = "started app in background"
  /\ ItemImages(Last(orchestrator_history)) = <<"A">>

\* C13: the summarization request holds no image embedded in an item of the
\* transcript, and holds the final screenshot exactly once, as an image part
\* of its own, when there is a final screenshot, and no image part when
\* there is none.
C13_RequestImages ==
  pc = "summarize_return" =>
    LET content == summary_messages[1].content.v
    IN /\ Len(summary_messages) = 1
       /\ content[1].type = "text"
       /\ Screenshots(content[1].text[3]) = <<>>
       /\ PartImages(content)
            = (IF summary_screenshot_b64 \in Images
               THEN <<summary_screenshot_b64>> ELSE <<>>)
       /\ Len(content) = 1 + Len(PartImages(content))

C13_Witness ==
  /\ pc = "summarize_return"
  /\ Screenshots(sub_agent_history) = <<"A", "B">>
  /\ summary_screenshot_b64 = "B"
  /\ Len(summary_messages[1].content.v) = 2

C13_WitnessNoScreenshot ==
  /\ pc = "summarize_return"
  /\ Screenshots(sub_agent_history) # <<>>
  /\ summary_screenshot_b64 = None
  /\ Len(summary_messages[1].content.v) = 1

\* ------------------------------------------------------------------------
\* The composed loop (composed_grounded.py): bounds and collaborators
\* ------------------------------------------------------------------------
\* predict_step invocations on one instance
MaxInvocations == 3

\* range(4): one attempt too many
AttemptsOffByOne == 3 + 1

\* for attempt in range(3)
Attempts == 3

\* an element description is a text; texts are sequences of fragments, so
\* that a text built around another one holds it as its beginning
Descriptions == {<<"red submit button">>, <<"search text field">>}
Coordinates == {<<1, 2>>, <<3, 4>>}

\* what the grounding agent's predict_click returns: a pair, or None
ClickResults == {NoXY} \cup Coordinates

\* d[k] = v
Put(d, k, v) == [x \in DOMAIN d \cup {k} |-> IF x = k THEN v ELSE d[x]]
\* del d[k]
Del(d, k) == [x \in DOMAIN d \ {k} |-> d[x]]

IsComputerCall(item) ==
  Has(item, "type") /\ item.type = "computer_call" /\ Has(item, "action")

\* a computer_call as the thinking model's answer is converted to it
DescriptionCall(n, desc) ==
  [type |-> "computer_call", call_id |-> [call |-> n],
   action |-> [type |-> "click", button |-> "left", element_description |-> desc]]

IsCall(item) == IsComputerCall(item) \/ IsFunctionCall(item)

\* a call of a function tool handed to predict_step beside the computer
CommandCall(n) ==
  [type |-> "function_call", call_id |-> [call |-> n], name |-> "run_command",
   arguments |-> Str(JsonText(Dict([command |-> "ls"])))]

\* the items one answer of the thinking model is converted to (lines
\* 354-360), in invocation n: a text, one or two actions on described
\* elements, or a function call
ThinkingOutputs(n) ==
  {<<AssistantMessage("done")>>}
  \cup {<<DescriptionCall(<<n, 1>>, <<"red submit button">>)>>}
  \cup {<<DescriptionCall(<<n, 1>>, <<"red submit button">>),
          DescriptionCall(<<n, 2>>, <<"search text field">>)>>}
  \cup {<<CommandCall(<<n, 1>>)>>}

\* the histories a sub-agent run begins with: with or without a screenshot
InitialHistories ==
  {<<[role |-> "user",
      content |-> List(<<TextPart(<<Subtask, "\n\nHere is the current screen state:">>),
                         ImagePart(b64)>>)]>> : b64 \in InitialScreens}
  \cup {<<[role |-> "user", content |-> Str(Subtask)]>>}

\* the delegation of the Orchestrator's first round
FirstDelegation ==
  DirectFunctionCall("delegate_to_gui_operator",
                     Str(JsonText(Dict([subtask |-> Subtask]))), <<0, 1>>)

\* the instances predict_step is first called on here: a fresh one with the
\* history a sub-agent run begins with, and the Orchestrator's when its
\* second round begins, after a first round that showed it the initial
\* screen and got a delegation
InitialInstances ==
  {[messages |-> history, last_before_image |-> None, previous_image |-> None] :
     history \in InitialHistories}
  \cup {[messages |-> <<InitialMessage(Task, initial), PlanningPrompt, FirstDelegation,
                        ToolResult(FirstDelegation, "clicked", final), PlanningPrompt>>,
          last_before_image |-> initial, previous_image |-> initial] :
          initial \in InitialScreens, final \in ActionScreens}

\* computer_handler of an invocation: none, one whose screenshot() returns
\* an image, one whose screenshot() raises
ComputerHandlers == {None, "screenshot_raises"} \cup Images

\* what find_agent_config gives for the grounding model: a class, or None
AgentConfigs == {None, "grounding_agent"}

\* ------------------------------------------------------------------------
\* get_last_image_b64 (composed_grounded.py)
\* ------------------------------------------------------------------------
\* for content_item in reversed(parts): the first png image met, or None
RECURSIVE ComposedScanParts(_, _)
ComposedScanParts(parts, k) ==
  IF k = 0 THEN None
  ELSE IF Get(parts[k], "type", None) = "image_url"
          /\ StartsWithPng(NestedUrl(parts[k]))
       THEN AfterComma(NestedUrl(parts[k]))
       ELSE ComposedScanParts(parts, k - 1)

\* the body of "for message in reversed(messages)": the image returned, or
\* None to go on with the message before
ComposedScanMessage(message) ==
  IF Get(message, "role", None) = "user"
     /\ Has(message, "content") /\ message.content.py = "list"
  THEN ComposedScanParts(message.content.v, Len(message.content.v))
  ELSE IF Get(message, "type", None) = "computer_call_output"
          /\ Has(message, "output") /\ message.output.py = "dict"
  THEN LET output == message.output.v
       IN IF Get(output, "type", None) = "input_image"
             /\ StartsWithPng(Get(output, "image_url", EmptyUrl))
          THEN AfterComma(output.image_url)
          ELSE None
  ELSE IF Get(message, "type", None) = "function_call_output"
          /\ Has(message, "output") /\ message.output.py = "list"
  THEN ComposedScanParts(message.output.v, Len(message.output.v))
  ELSE None

RECURSIVE ComposedScanMessages(_, _)
ComposedScanMessages(history, k) ==
  IF k = 0 THEN None
  ELSE IF ComposedScanMessage(history[k]) # None
       THEN ComposedScanMessage(history[k])
       ELSE ComposedScanMessages(history, k - 1)

composed_get_last_image_b64(history) == ComposedScanMessages(history, Len(history))

\* ------------------------------------------------------------------------
\* get_failed_coordinates
\* ------------------------------------------------------------------------
RECURSIVE get_failed_coordinates(_)
get_failed_coordinates(history) ==
  IF history = <<>> THEN <<>>
  ELSE (IF IsComputerCall(Head(history))
           /\ Has(Head(history).action, "x") /\ Has(Head(history).action, "y")
        THEN <<<<Head(history).action.x, Head(history).action.y>>>>
        ELSE <<>>)
       \o get_failed_coordinates(Tail(history))

\* ------------------------------------------------------------------------
\* The conversions between coordinates and descriptions (agent/responses.py)
\* ------------------------------------------------------------------------
\* the descriptions of the cache that hold the coordinate
InverseChoices(cache, xy) == {d \in DOMAIN cache : cache[d] = xy}

\* a prior action: its coordinate replaced by a description that the cache
\* maps to it, if there is one
XYToDesc(item, cache) ==
  IF IsComputerCall(item) /\ Has(item.action, "x") /\ Has(item.action, "y")
     /\ InverseChoices(cache, <<item.action.x, item.action.y>>) # {}
  THEN [item EXCEPT !.action =
          Put(Del(Del(item.action, "x"), "y"), "element_description",
              CHOOSE d \in InverseChoices(cache, <<item.action.x, item.action.y>>) : TRUE)]
  ELSE item

convert_computer_calls_xy2desc(items, cache) ==
  [k \in 1..Len(items) |-> XYToDesc(items[k], cache)]

DescribesElement(item) ==
  IsComputerCall(item) /\ Has(item.action, "element_description")

\* a proposed action whose description the cache resolves: the coordinate in
\* place of the description
DescToXY(item, cache) ==
  [item EXCEPT !.action =
     Put(Put(Del(item.action, "element_description"),
             "x", cache[item.action.element_description][1]),
         "y", cache[item.action.element_description][2])]

\* the proposed actions rewritten; those whose description the cache does not
\* resolve are left out
RECURSIVE convert_computer_calls_desc2xy(_, _)
convert_computer_calls_desc2xy(items, cache) ==
  IF items = <<>> THEN <<>>
  ELSE (IF ~DescribesElement(Head(items)) THEN <<Head(items)>>
        ELSE IF Head(items).action.element_description \in DOMAIN cache
        THEN <<DescToXY(Head(items), cache)>>
        ELSE <<>>)
       \o convert_computer_calls_desc2xy(Tail(items), cache)

\* every element description the proposed actions refer to, each once
RECURSIVE get_all_element_descriptions(_)
get_all_element_descriptions(items) ==
  IF items = <<>> THEN <<>>
  ELSE LET rest == get_all_element_descriptions(Tail(items))
       IN IF DescribesElement(Head(items))
          THEN <<Head(items).action.element_description>>
               \o SelectSeq(rest, LAMBDA d : d # Head(items).action.element_description)
          ELSE rest

\* convert_responses_items_to_completion_messages with
\* allow_images_in_tool_results=False: the completion messages one history
\* item becomes. A user message stays one; the screenshot of an action
\* becomes a tool message and a user message holding the image; the result
\* of a function tool becomes a tool message
CompletionMessagesOf(item) ==
  IF Get(item, "role", None) = "user" THEN <<item>>
  ELSE IF Get(item, "type", None) = "computer_call_output"
  THEN <<[role |-> "tool", tool_call_id |-> item.call_id,
          content |-> Str("[Execution completed. See screenshot below]")],
         [role |-> "user",
          content |-> List(<<[type |-> "image_url",
                              image_url |-> [url |-> item.output.v.image_url]]>>)]>>
  ELSE IF Get(item, "type", None) = "function_call_output"
  THEN <<[role |-> "tool", tool_call_id |-> item.call_id, content |-> item.output]>>
  ELSE IF IsCall(item)
  THEN <<[role |-> "assistant", content |-> Str(""), tool_calls |-> <<item>>]>>
  ELSE <<[role |-> "assistant", content |-> item.content]>>

RECURSIVE convert_responses_items_to_completion_messages(_)
convert_responses_items_to_completion_messages(items) ==
  IF items = <<>> THEN <<>>
  ELSE CompletionMessagesOf(Head(items))
       \o convert_responses_items_to_completion_messages(Tail(items))

\* ------------------------------------------------------------------------
\* The model identifier and the screenshot of predict_step
\* ------------------------------------------------------------------------
\* a model identifier is the sequence of its pieces around every "+"
ModelIdentifiers ==
  {<<"grounding_model", "+", "thinking_model">>, <<"thinking_model">>}

\* every identifier taken for a composed one
HasPlusAlways(m) == TRUE

\* lines 202, 437: "+" in model
HasPlus(m) == \E k \in 1..Len(m) : m[k] = "+"

\* lines 204, 439: model.split("+", 1)
SplitModel(m) ==
  IF HasPlus(m)
  THEN LET k == CHOOSE j \in 1..Len(m) : m[j] = "+" /\ \A h \in 1..(j - 1) : m[h] # "+"
       IN [grounding_model |-> SubSeq(m, 1, k - 1),
           thinking_model |-> SubSeq(m, k + 1, Len(m))]
  ELSE [grounding_model |-> m, thinking_model |-> <<>>]

\* the capture whose failure is not caught
ScreenshotUncaught(handler) ==
  IF handler \in Images
  THEN [image |-> handler, captured |-> "returned", exception |-> None]
  ELSE [image |-> None, captured |-> "raised", exception |-> "Exception"]

\* lines 212-217: await computer_handler.screenshot() in its try
Screenshot(handler) ==
  IF handler \in Images
  THEN [image |-> handler, captured |-> "returned", exception |-> None]
  ELSE [image |-> None, captured |-> "raised", exception |-> None]

\* the capture made whenever a handler is there
CurrentScreenshotAlwaysCaptured(found, handler) ==
  IF handler # None
  THEN Screenshot(handler)
  ELSE [image |-> found, captured |-> "no", exception |-> None]

\* lines 207-217: the screenshot of the invocation
CurrentScreenshot(found, handler) ==
  IF ~Truthy(found) /\ handler # None
  THEN Screenshot(handler)
  ELSE [image |-> found, captured |-> "no", exception |-> None]

\* ------------------------------------------------------------------------
\* The images of the prompt (lines 237-285)
\* ------------------------------------------------------------------------
BeforeLabel ==
  [type |-> "text",
   text |-> "\n--- BEFORE ACTION (what screen looked like when previous action was decided) ---"]
AfterLabel ==
  [type |-> "text",
   text |-> "\n--- AFTER ACTION (actual result of the previous action) ---"]

\* line 254
HasToolResults(history) ==
  \E k \in 1..Len(history) :
    Get(history[k], "type", None) \in {"function_call_output", "computer_call_output"}

\* lines 240-242: there is a last message and it is a user message
LastIsUser(completion) ==
  completion # <<>> /\ Get(completion[Len(completion)], "role", None) = "user"

\* lines 243-251: the content as a list, its images removed
ContentWithoutImages(content) ==
  SelectSeq(IF content.py = "str" THEN <<[type |-> "text", text |-> content.v]>>
            ELSE content.v,
            LAMBDA item : Get(item, "type", None) # "image_url")

\* lines 256-281: what is added to the last user message
ShownImages(has_tool_results, before, current) ==
  IF has_tool_results /\ Truthy(before) /\ Truthy(current)
  THEN <<BeforeLabel, ImagePart(before), AfterLabel, ImagePart(current)>>
  ELSE IF Truthy(current) THEN <<ImagePart(current)>>
  ELSE <<>>

\* lines 239-281: the prompt
WithCurrentImages(completion, history, before, current) ==
  IF LastIsUser(completion)
  THEN [completion EXCEPT ![Len(completion)].content =
          List(ContentWithoutImages(@)
               \o ShownImages(HasToolResults(history), before, current))]
  ELSE completion

\* lines 284-285, inside the branch of line 241
BeforeImageAfter(completion, before, current) ==
  IF LastIsUser(completion) /\ Truthy(current) THEN current ELSE before

\* ------------------------------------------------------------------------
\* ComposedGroundedConfig.predict_step
\* ------------------------------------------------------------------------
\* the hint added on the first attempt too
EnhancedInstructionAlways(desc, coords, n) ==
  IF coords # <<>>
  THEN desc \o <<". Avoid these previously failed coordinates: ", coords>>
  ELSE desc

\* lines 391-394: the instruction of attempt n (0, 1, 2) for the description
EnhancedInstruction(desc, coords, n) ==
  IF coords # <<>> /\ n > 0
  THEN desc \o <<". Avoid these previously failed coordinates: ", coords>>
  ELSE desc

\* the cache keyed by the instruction sent to the grounding model
StoreKeyInstruction(desc, enhanced_instruction) == enhanced_instruction

\* line 404: the key under which a coordinate is stored
StoreKey(desc, enhanced_instruction) == desc

\* every answer of the grounding model taken for a coordinate
SucceededAlways(coords) == TRUE

\* line 403: if coords
Succeeded(coords) == coords # NoXY

\* the pass given up at the first description that stays unresolved
AfterAttemptGivingUp(coords, k, n, descriptions) ==
  IF Succeeded(coords)
  THEN IF k < Len(descriptions)
       THEN [step_pc |-> "grounding", desc_k |-> k + 1, attempt |-> 0]
       ELSE [step_pc |-> "convert", desc_k |-> k, attempt |-> n]
  ELSE IF n + 1 < Attempts
  THEN [step_pc |-> "grounding", desc_k |-> k, attempt |-> n + 1]
  ELSE [step_pc |-> "convert", desc_k |-> k, attempt |-> n]

\* lines 384-411: where the two loops stand after attempt n for description k
\* returned coords
AfterAttempt(coords, k, n, descriptions) ==
  IF Succeeded(coords) \/ n + 1 >= Attempts
  THEN IF k < Len(descriptions)
       THEN [step_pc |-> "grounding", desc_k |-> k + 1, attempt |-> 0]
       ELSE [step_pc |-> "convert", desc_k |-> k, attempt |-> n]
  ELSE [step_pc |-> "grounding", desc_k |-> k, attempt |-> n + 1]

\* the cache handed on only until the first invocation is over
StepCacheForgetful(cache, n) == IF n > 1 THEN EmptyDict ELSE cache

\* line 416: the mapping handed to convert_computer_calls_desc2xy
StepCache(cache, n) == cache

\* lines 201-381: from the call of predict_step to the grounding phase, or
\* to the exception it raises
PredictStepBegin ==
  /\ UNCHANGED coact_vars
  /\ UNCHANGED programmer_vars
  /\ UNCHANGED library_vars
  /\ step_pc = "idle"
  /\ invocations < MaxInvocations
  /\ desc2xy_before' = desc2xy
  /\ grounding_calls' = <<>>
  /\ final_output_items' = <<>>
  /\ \E m \in ModelIdentifiers, handler \in ComputerHandlers :
       LET shot == CurrentScreenshot(composed_get_last_image_b64(messages), handler)
           raised == IF ~HasPlus(m) THEN "ValueError" ELSE shot.exception
       IN /\ model' = m
          \* "not last_image_b64 and computer_handler" reads the handler only
          \* when no image was found
          /\ computer_handler' =
               IF HasPlus(m) /\ ~Truthy(composed_get_last_image_b64(messages))
               THEN handler ELSE None
          /\ IF raised # None
             THEN /\ step_exception' = raised
                  /\ step_pc' = "raised"
                  /\ invocations' = invocations
                  /\ captured' = IF HasPlus(m) THEN shot.captured ELSE "no"
                  /\ UNCHANGED <<last_image_b64, failed_coords, messages_with_descriptions,
                                 completion_messages, last_before_image, thinking_calls,
                                 thinking_output_items, element_descriptions,
                                 grounding_agents, desc_k, attempt>>
             ELSE /\ step_exception' = None
                  /\ invocations' = invocations + 1
                  /\ captured' = shot.captured
                  /\ last_image_b64' = shot.image
                  /\ failed_coords' = get_failed_coordinates(messages)
                  /\ messages_with_descriptions' =
                       convert_computer_calls_xy2desc(messages, desc2xy)
                  /\ LET completion ==
                           convert_responses_items_to_completion_messages(
                             messages_with_descriptions')
                     IN /\ completion_messages' =
                             WithCurrentImages(completion, messages, last_before_image,
                                               shot.image)
                        /\ last_before_image' =
                             BeforeImageAfter(completion, last_before_image, shot.image)
                  /\ thinking_calls' = thinking_calls + 1
                  /\ \E output \in ThinkingOutputs(invocations + 1) :
                       /\ thinking_output_items' = output
                       /\ element_descriptions' = get_all_element_descriptions(output)
                  /\ IF element_descriptions' # <<>> /\ Truthy(shot.image)
                     THEN LET grounding_model == SplitModel(m).grounding_model
                          IN /\ IF Has(grounding_agents, grounding_model)
                                THEN grounding_agents' = grounding_agents
                                ELSE \E conf \in AgentConfigs :
                                       grounding_agents' =
                                         Put(grounding_agents, grounding_model, conf)
                             /\ IF grounding_agents'[grounding_model] # None
                                THEN step_pc' = "grounding" /\ desc_k' = 1 /\ attempt' = 0
                                ELSE step_pc' = "convert" /\ desc_k' = 0 /\ attempt' = 0
                     ELSE /\ grounding_agents' = grounding_agents
                          /\ step_pc' = "convert" /\ desc_k' = 0 /\ attempt' = 0
  /\ UNCHANGED <<desc2xy, messages, previous, click>>

\* lines 387-409: one attempt, that is one predict_click call
GroundingAttempt ==
  /\ UNCHANGED coact_vars
  /\ UNCHANGED programmer_vars
  /\ UNCHANGED library_vars
  /\ step_pc = "grounding"
  /\ LET desc == element_descriptions[desc_k]
         enhanced_instruction == EnhancedInstruction(desc, failed_coords, attempt)
     IN \E coords \in ClickResults :
          /\ grounding_calls' =
               Append(grounding_calls,
                      [desc |-> desc, attempt |-> attempt, image_b64 |-> last_image_b64,
                       instruction |-> enhanced_instruction, coords |-> coords])
          /\ desc2xy' = IF Succeeded(coords)
                        THEN Put(desc2xy, StoreKey(desc, enhanced_instruction), coords)
                        ELSE desc2xy
          /\ LET after == AfterAttempt(coords, desc_k, attempt, element_descriptions)
             IN /\ step_pc' = after.step_pc
                /\ desc_k' = after.desc_k
                /\ attempt' = after.attempt
  /\ UNCHANGED <<grounding_agents, last_before_image, messages, last_image_b64,
                 failed_coords, messages_with_descriptions, thinking_output_items,
                 element_descriptions, final_output_items, invocations,
                 desc2xy_before, previous, model, completion_messages,
                 step_exception, computer_handler, captured, thinking_calls,
                 click>>

\* lines 415-422: the proposed actions rewritten and returned
PredictStepReturn ==
  /\ UNCHANGED coact_vars
  /\ UNCHANGED programmer_vars
  /\ UNCHANGED library_vars
  /\ step_pc = "convert"
  /\ final_output_items' =
       convert_computer_calls_desc2xy(thinking_output_items,
                                      StepCache(desc2xy, invocations))
  /\ step_pc' = "returned"
  /\ UNCHANGED <<desc2xy, grounding_agents, last_before_image, messages,
                 last_image_b64, failed_coords, messages_with_descriptions,
                 thinking_output_items, element_descriptions, desc_k, attempt,
                 invocations, grounding_calls, desc2xy_before, previous, model,
                 completion_messages, step_exception, computer_handler,
                 captured, thinking_calls, click>>

\* the descriptions this invocation resolved, with their coordinates
ResolvedNow ==
  [d \in {grounding_calls[k].desc : k \in {j \in 1..Len(grounding_calls) :
                                             grounding_calls[j].coords # NoXY}}
     |-> (CHOOSE call \in {grounding_calls[k] : k \in 1..Len(grounding_calls)} :
            call.desc = d /\ call.coords # NoXY).coords]

\* what the runtime adds for every call it carried out: the screenshot taken
\* after an action, the text a function tool returned
ActionOutputs(items, b64) ==
  [k \in 1..Len(SelectSeq(items, IsCall)) |->
     IF IsComputerCall(SelectSeq(items, IsCall)[k])
     THEN [type |-> "computer_call_output",
           call_id |-> SelectSeq(items, IsCall)[k].call_id,
           output |-> Dict([type |-> "input_image", image_url |-> DataUrl(b64)])]
     ELSE [type |-> "function_call_output",
           call_id |-> SelectSeq(items, IsCall)[k].call_id,
           output |-> Str(<<"Stdout:\n", "app.desktop", "\n">>)]]

\* the sub-agent runtime between two predict_step calls: it adds the
\* returned items to the history, carries the calls out and adds their
\* outputs; after an answer without a call the run is over
NextInvocation ==
  /\ UNCHANGED coact_vars
  /\ UNCHANGED programmer_vars
  /\ UNCHANGED library_vars
  /\ step_pc = "returned"
  /\ invocations < MaxInvocations
  /\ \E k \in 1..Len(final_output_items) : IsCall(final_output_items[k])
  /\ \E b64 \in ActionScreens :
       messages' = messages \o final_output_items
                   \o ActionOutputs(final_output_items, b64)
  /\ previous' = [image |-> last_image_b64, resolved |-> ResolvedNow]
  /\ step_pc' = "idle"
  \* the locals of the invocation that returned are gone
  /\ last_image_b64' = None
  /\ failed_coords' = <<>>
  /\ messages_with_descriptions' = <<>>
  /\ thinking_output_items' = <<>>
  /\ element_descriptions' = <<>>
  /\ desc_k' = 0
  /\ attempt' = 0
  /\ final_output_items' = <<>>
  /\ grounding_calls' = <<>>
  /\ desc2xy_before' = desc2xy
  /\ model' = <<>>
  /\ completion_messages' = <<>>
  /\ computer_handler' = None
  /\ captured' = "no"
  /\ thinking_calls' = 0
  /\ UNCHANGED <<desc2xy, grounding_agents, last_before_image, invocations,
                 step_exception, click>>

\* a caller that caught the exception of predict_step calls it again
CallAgain ==
  /\ UNCHANGED coact_vars
  /\ UNCHANGED programmer_vars
  /\ UNCHANGED library_vars
  /\ step_pc = "raised"
  /\ step_pc' = "idle"
  /\ step_exception' = None
  /\ model' = <<>>
  /\ computer_handler' = None
  /\ captured' = "no"
  /\ UNCHANGED <<desc2xy, grounding_agents, last_before_image, messages,
                 last_image_b64, failed_coords, messages_with_descriptions,
                 thinking_output_items, element_descriptions, desc_k, attempt,
                 final_output_items, invocations, grounding_calls, desc2xy_before,
                 previous, completion_messages, thinking_calls, click>>

\* what find_agent_config gives predict_click: what the instance was given
\* for that model before, if it asked
ClickConfigs(cache, grounding_model) ==
  IF Has(cache, grounding_model) THEN {cache[grounding_model]} ELSE AgentConfigs

\* lines 424-452: predict_click called on the instance between two steps
PredictClick ==
  /\ UNCHANGED coact_vars
  /\ UNCHANGED programmer_vars
  /\ UNCHANGED library_vars
  /\ step_pc = "idle"
  /\ step_pc' = "clicked"
  /\ \E m \in ModelIdentifiers :
       IF ~HasPlus(m)
       THEN click' = [model |-> m, exception |-> "ValueError", configs_sought |-> 0,
                      grounding_calls |-> 0, result |-> NoXY]
       ELSE \E conf \in ClickConfigs(grounding_agents, SplitModel(m).grounding_model) :
              IF conf # None
              THEN \E coords \in ClickResults :
                     click' = [model |-> m, exception |-> None, configs_sought |-> 1,
                               grounding_calls |-> 1, result |-> coords]
              ELSE click' = [model |-> m, exception |-> None, configs_sought |-> 1,
                             grounding_calls |-> 0, result |-> NoXY]
  /\ UNCHANGED <<desc2xy, grounding_agents, last_before_image, messages,
                 last_image_b64, failed_coords, messages_with_descriptions,
                 thinking_output_items, element_descriptions, desc_k, attempt,
                 final_output_items, invocations, grounding_calls, desc2xy_before,
                 previous, model, completion_messages, step_exception,
                 computer_handler, captured, thinking_calls>>

\* a sub-agent run begins on a fresh instance
GroundedInit ==
  /\ pc = "predict_step"
  /\ i = 0
  /\ orchestrator_loop = "direct"
  /\ orchestrator_history = <<>>
  /\ delegation = NoItem
  /\ tool_name = None
  /\ subtask = None
  /\ sub_agent = "gui_operator"
  /\ sub_agent_history = <<>>
  /\ summary_screenshot_b64 = None
  /\ summary_messages = <<>>
  /\ summary = None
  /\ exception = None
  /\ orchestrator_results = <<>>
  /\ sub_agent_runs = 0
  /\ summarize_calls = 0
  /\ summary_raised = FALSE
  /\ round_events = <<>>
  /\ round_start_history = <<>>
  /\ step_pc = "idle"
  /\ desc2xy = EmptyDict
  /\ grounding_agents = EmptyDict
  /\ \E instance \in InitialInstances :
       /\ messages = instance.messages
       /\ last_before_image = instance.last_before_image
       /\ previous = [image |-> instance.previous_image, resolved |-> EmptyDict]
  /\ last_image_b64 = None
  /\ failed_coords = <<>>
  /\ messages_with_descriptions = <<>>
  /\ thinking_output_items = <<>>
  /\ element_descriptions = <<>>
  /\ desc_k = 0
  /\ attempt = 0
  /\ final_output_items = <<>>
  /\ invocations = 0
  /\ grounding_calls = <<>>
  /\ desc2xy_before = EmptyDict
  /\ model = <<>>
  /\ completion_messages = <<>>
  /\ step_exception = None
  /\ computer_handler = None
  /\ captured = "no"
  /\ thinking_calls = 0
  /\ click = <<>>
  /\ NoProgrammerRun
  /\ NoLibraryCall

GroundedNext ==
  \/ PredictStepBegin
  \/ GroundingAttempt
  \/ PredictStepReturn
  \/ NextInvocation
  \/ CallAgain
  \/ PredictClick

GroundedSpec == GroundedInit /\ [][GroundedNext]_vars

\* ------------------------------------------------------------------------
\* A run of the Programmer with ProgrammerTools (coact_1_example.py 51-104)
\* ------------------------------------------------------------------------
\* tool calls of one run of the Programmer
MaxToolCalls == 2

\* line 90
BackgroundCommand(command) == <<"setsid ", command, " >/dev/null 2>&1 &">>

\* line 104
Acknowledgement(command) == <<"Command '", command, "' started in background.">>

\* what the backend does with a command it was sent
BackendResults == {"returns", "raises"}

\* lines 69-76: the text run_command returns
RunCommandOutput(command, result) ==
  IF result = "returns" THEN <<"Stdout:\n", "app.desktop", "\n">>
  ELSE <<"Error running command '", command, "': ", "connection lost">>

ProgrammerToolNames == {"run_command", "run_command_in_background"}

\* what the Programmer's model answers when n tool calls were made: a final
\* text, or a call of one of the two tools
ProgrammerAnswers(n) ==
  {AssistantMessage("done")}
  \cup {DirectFunctionCall(name, Str(JsonText(Dict([command |-> "firefox"]))), n + 1) :
          name \in ProgrammerToolNames}

\* the output item of a tool call
FunctionCallOutput(call, text) ==
  [type |-> "function_call_output", call_id |-> call.call_id, output |-> Str(text)]

\* the call the run is carrying out
CurrentCall(e) ==
  LET calls == SelectSeq(e.history, IsFunctionCall) IN calls[Len(calls)]

CommandOf(call) == call.arguments.v.value.v.command

\* the run begins: the first request to the model is on its way
Started == [pc |-> "model", history |-> <<>>, tasks |-> <<>>, returned |-> <<>>, calls |-> 0]

\* the model's answer is added to the transcript; a call is handed to its tool
ModelAnswered(e, answer) ==
  IF IsFunctionCall(answer)
  THEN [e EXCEPT !.history = Append(@, answer), !.pc = answer.name, !.calls = @ + 1]
  ELSE [e EXCEPT !.history = Append(@, answer), !.pc = "done"]

\* line 70: await self._computer.interface.run_command(command)
RunCommandIssued(e) == [e EXCEPT !.pc = "backend"]

\* lines 70-76: the result or the exception of the backend becomes the text
\* returned; the runtime adds it to the transcript and asks the model again
RunCommandReturned(e, result) ==
  [e EXCEPT !.history =
              Append(@, FunctionCallOutput(CurrentCall(e),
                                           RunCommandOutput(CommandOf(CurrentCall(e)), result))),
            !.pc = "model"]

\* one call starting two detached tasks
TaskCreatedTwice(e) ==
  [e EXCEPT !.tasks = @ \o <<[command |-> BackgroundCommand(CommandOf(CurrentCall(e))),
                              state |-> "scheduled"],
                             [command |-> BackgroundCommand(CommandOf(CurrentCall(e))),
                              state |-> "scheduled"]>>,
            !.pc = "created"]

\* lines 90-101: asyncio.create_task(run_background_command())
TaskCreated(e) ==
  [e EXCEPT !.tasks = Append(@, [command |-> BackgroundCommand(CommandOf(CurrentCall(e))),
                                 state |-> "scheduled"]),
            !.pc = "created"]

\* the acknowledgement held back until the detached command is over
AcknowledgedWhenFinished(state) == state \in {"succeeded", "raised"}

\* lines 101-104: nothing is awaited between create_task and return
AcknowledgedWhen(state) == TRUE

\* run_command_in_background can return
CanAcknowledge(e) ==
  e.pc = "created" /\ AcknowledgedWhen(e.tasks[Len(e.tasks)].state)

\* line 104: the text returned; the runtime adds it to the transcript and
\* asks the model again
Acknowledged(e) ==
  [e EXCEPT !.returned = Append(@, Acknowledgement(CommandOf(CurrentCall(e)))),
            !.history =
              Append(@, FunctionCallOutput(CurrentCall(e),
                                           Acknowledgement(CommandOf(CurrentCall(e))))),
            !.pc = "model"]

\* the event loop runs a task only while the controller's coroutine is
\* suspended in an await, or has left the run
Suspended(e) ==
  \/ e.pc \in {"model", "backend", "done"}
  \/ e.pc = "created" /\ ~CanAcknowledge(e)

\* the task run without sending anything
TaskBegunWithoutSending(e, k) == e

\* line 95: the task sends the command to the backend
TaskBegun(e, k) == [e EXCEPT !.tasks[k].state = "in_flight"]

\* the outcome of the detached command written into the transcript
DetachedOutcomeReported(e, k, outcome) ==
  [e EXCEPT !.tasks[k].state = outcome,
            !.history = Append(@, [type |-> "message", role |-> "user",
                                   content |-> Str(outcome)])]

\* lines 94-98: the result of the backend is dropped, its exception passed
\* over; the task is over
DetachedOutcome(e, k, outcome) == [e EXCEPT !.tasks[k].state = outcome]

\* the model answers the Programmer
ProgrammerModelAnswers ==
  /\ UNCHANGED coact_vars
  /\ UNCHANGED grounded_vars
  /\ UNCHANGED library_vars
  /\ programmer.pc = "model"
  /\ \E answer \in ProgrammerAnswers(programmer.calls) :
       /\ IsFunctionCall(answer) => programmer.calls < MaxToolCalls
       /\ programmer' = ModelAnswered(programmer, answer)
       /\ twin' = IF twin.pc = "model" THEN ModelAnswered(twin, answer) ELSE twin

\* lines 57-70: run_command sends the command and waits
RunCommand ==
  /\ UNCHANGED coact_vars
  /\ UNCHANGED grounded_vars
  /\ UNCHANGED library_vars
  /\ programmer.pc = "run_command"
  /\ programmer' = RunCommandIssued(programmer)
  /\ twin' = IF twin.pc = "run_command" THEN RunCommandIssued(twin) ELSE twin

\* lines 70-76: the backend answers run_command, or raises
RunCommandReturns ==
  /\ UNCHANGED coact_vars
  /\ UNCHANGED grounded_vars
  /\ UNCHANGED library_vars
  /\ programmer.pc = "backend"
  /\ \E result \in BackendResults :
       /\ programmer' = RunCommandReturned(programmer, result)
       /\ twin' = IF twin.pc = "backend" THEN RunCommandReturned(twin, result) ELSE twin

\* lines 78-101: run_command_in_background creates the detached task
RunCommandInBackground ==
  /\ UNCHANGED coact_vars
  /\ UNCHANGED grounded_vars
  /\ UNCHANGED library_vars
  /\ programmer.pc = "run_command_in_background"
  /\ programmer' = TaskCreated(programmer)
  /\ twin' = IF twin.pc = "run_command_in_background" THEN TaskCreated(twin) ELSE twin

\* lines 103-104: run_command_in_background returns
ReturnAcknowledgement ==
  /\ UNCHANGED coact_vars
  /\ UNCHANGED grounded_vars
  /\ UNCHANGED library_vars
  /\ CanAcknowledge(programmer)
  /\ programmer' = Acknowledged(programmer)
  /\ twin' = IF CanAcknowledge(twin) THEN Acknowledged(twin) ELSE twin

\* lines 93-95: the event loop runs a detached task up to its await
DetachedTaskBegins ==
  /\ UNCHANGED coact_vars
  /\ UNCHANGED grounded_vars
  /\ UNCHANGED library_vars
  /\ Suspended(programmer)
  /\ \E k \in 1..Len(programmer.tasks) :
       /\ programmer.tasks[k].state = "scheduled"
       /\ programmer' = TaskBegun(programmer, k)
  /\ twin' = twin

\* lines 95-98: the backend has answered the detached command, or raised,
\* and the event loop runs the task to its end
DetachedTaskEnds ==
  /\ UNCHANGED coact_vars
  /\ UNCHANGED grounded_vars
  /\ UNCHANGED library_vars
  /\ Suspended(programmer)
  /\ \E k \in 1..Len(programmer.tasks), outcome \in {"succeeded", "raised"} :
       /\ programmer.tasks[k].state = "in_flight"
       /\ programmer' = DetachedOutcome(programmer, k, outcome)
  /\ twin' = twin

\* the same in the other run
TwinTaskBegins ==
  /\ UNCHANGED coact_vars
  /\ UNCHANGED grounded_vars
  /\ UNCHANGED library_vars
  /\ Suspended(twin)
  /\ \E k \in 1..Len(twin.tasks) :
       /\ twin.tasks[k].state = "scheduled"
       /\ twin' = TaskBegun(twin, k)
  /\ programmer' = programmer

TwinTaskEnds ==
  /\ UNCHANGED coact_vars
  /\ UNCHANGED grounded_vars
  /\ UNCHANGED library_vars
  /\ Suspended(twin)
  /\ \E k \in 1..Len(twin.tasks), outcome \in {"succeeded", "raised"} :
       /\ twin.tasks[k].state = "in_flight"
       /\ twin' = DetachedOutcome(twin, k, outcome)
  /\ programmer' = programmer

\* CoAct1.run has delegated to the Programmer (line 643)
ProgrammerInit ==
  /\ pc = "programmer_run"
  /\ i = 1
  /\ orchestrator_loop = "direct"
  /\ orchestrator_history = <<>>
  /\ delegation = NoItem
  /\ tool_name = "delegate_to_programmer"
  /\ subtask = Subtask
  /\ sub_agent = "programmer"
  /\ sub_agent_history = <<>>
  /\ summary_screenshot_b64 = None
  /\ summary_messages = <<>>
  /\ summary = None
  /\ exception = None
  /\ orchestrator_results = <<>>
  /\ sub_agent_runs = 0
  /\ summarize_calls = 0
  /\ summary_raised = FALSE
  /\ round_events = <<>>
  /\ round_start_history = <<>>
  /\ Constructed
  /\ programmer = Started
  /\ twin = Started
  /\ NoLibraryCall

ProgrammerNext ==
  \/ ProgrammerModelAnswers
  \/ RunCommand
  \/ RunCommandReturns
  \/ RunCommandInBackground
  \/ ReturnAcknowledgement
  \/ DetachedTaskBegins
  \/ DetachedTaskEnds
  \/ TwinTaskBegins
  \/ TwinTaskEnds

ProgrammerSpec == ProgrammerInit /\ [][ProgrammerNext]_vars

\* the same under fair scheduling: code that can run without awaiting runs,
\* and the event loop runs a task that is ready whenever the coroutine that
\* holds it up is suspended. Nothing is asked of the model or the backend.
ProgrammerLiveSpec ==
  /\ ProgrammerSpec
  /\ WF_vars(RunCommand)
  /\ WF_vars(RunCommandInBackground)
  /\ WF_vars(ReturnAcknowledgement)
  /\ WF_vars(DetachedTaskBegins)

\* ------------------------------------------------------------------------
\* Vocabulary of the properties of the composed loop
\* ------------------------------------------------------------------------
\* the predict_click calls of this invocation for the description, in order
CallsFor(d) == SelectSeq(grounding_calls, LAMBDA call : call.desc = d)

Failed(call) == call.coords = NoXY

\* predict_step is past the grounding phase, or not in an invocation
PassOver == step_pc \in {"convert", "returned"}

\* the resolution pass of this invocation is through with the description
Finished(d) ==
  /\ CallsFor(d) # <<>>
  /\ \/ PassOver
     \/ step_pc = "grounding" /\ element_descriptions[desc_k] # d

\* the proposed action of this invocation that refers to the description
ProposedFor(d) ==
  {thinking_output_items[k] : k \in {j \in 1..Len(thinking_output_items) :
      /\ DescribesElement(thinking_output_items[j])
      /\ thinking_output_items[j].action.element_description = d}}

\* the items of the final action set that stem from a proposed action
FinalFrom(proposed) ==
  {k \in 1..Len(final_output_items) :
     /\ IsComputerCall(final_output_items[k])
     /\ \E item \in proposed : item.call_id = final_output_items[k].call_id}

Proposed(d) == ProposedFor(d) # {}

\* the (x, y) pairs of the computer_call items of a history, in its order
HasXY(item) ==
  IsComputerCall(item) /\ Has(item.action, "x") /\ Has(item.action, "y")

HistoryPairs(history) ==
  [k \in 1..Len(SelectSeq(history, HasXY)) |->
     <<SelectSeq(history, HasXY)[k].action.x, SelectSeq(history, HasXY)[k].action.y>>]

\* ------------------------------------------------------------------------
\* Properties of the composed loop
\* ------------------------------------------------------------------------

\* C14: in one resolution pass, for a description on which the grounding
\* function fails every time, the grounding function is invoked exactly 3
\* times, no more; the description stays unresolved and no entry is written
\* to desc2xy for it in that pass.
C14_RetryBound ==
  step_pc # "idle" =>
    \A d \in Descriptions :
      /\ Len(CallsFor(d)) <= 3
      /\ (Finished(d) /\ \A k \in 1..Len(CallsFor(d)) : Failed(CallsFor(d)[k]))
         => /\ Len(CallsFor(d)) = 3
            /\ \A k \in 1..3 : CallsFor(d)[k].attempt = k - 1
            /\ d \in DOMAIN desc2xy <=> d \in DOMAIN desc2xy_before
            /\ d \in DOMAIN desc2xy => desc2xy[d] = desc2xy_before[d]
            /\ DOMAIN desc2xy \subseteq Descriptions

C14_Witness ==
  /\ step_pc = "returned"
  /\ Len(CallsFor(<<"red submit button">>)) = 3
  /\ \A k \in 1..3 : Failed(CallsFor(<<"red submit button">>)[k])
  /\ <<"red submit button">> \notin DOMAIN desc2xy

\* C15: if the first successful attempt for a description is attempt k (k in
\* 1..3), exactly k grounding calls are made for it in that pass, and
\* afterwards desc2xy maps the literal description string (not the
\* instruction with the hint) to the coordinate attempt k returned.
C15_FirstSuccess ==
  step_pc # "idle" =>
    \A d \in Descriptions :
      (Finished(d) /\ \E k \in 1..Len(CallsFor(d)) : ~Failed(CallsFor(d)[k]))
      => LET calls == CallsFor(d)
             n == Len(calls)
         IN /\ n \in 1..3
            /\ ~Failed(calls[n])
            /\ \A k \in 1..(n - 1) : Failed(calls[k])
            /\ \A k \in 1..n : calls[k].attempt = k - 1
            /\ DOMAIN desc2xy \subseteq Descriptions
            /\ d \in DOMAIN desc2xy
            /\ desc2xy[d] = calls[n].coords

C15_Witness ==
  /\ step_pc = "returned"
  /\ Len(CallsFor(<<"search text field">>)) = 3
  /\ CallsFor(<<"search text field">>)[3].coords = <<3, 4>>
  /\ CallsFor(<<"search text field">>)[3].instruction # <<"search text field">>
  /\ desc2xy[<<"search text field">>] = <<3, 4>>

\* C16: resolving the same description against the same image in two
\* successive predict_step invocations on one instance yields, in the second
\* invocation, the coordinate obtained in the first, and the grounding
\* function is not invoked for that description in the second invocation.
C16_CacheReuse ==
  (step_pc = "returned" /\ invocations >= 2 /\ previous.image = last_image_b64) =>
    \A d \in DOMAIN previous.resolved :
      Proposed(d) =>
        /\ CallsFor(d) = <<>>
        /\ \A k \in FinalFrom(ProposedFor(d)) :
             <<final_output_items[k].action.x, final_output_items[k].action.y>>
               = previous.resolved[d]
        /\ FinalFrom(ProposedFor(d)) # {}

\* C17: if a description cannot be resolved in a predict_step invocation
\* (all 3 attempts fail), the final action set of that invocation holds no
\* action referring to it, and the number of description-bearing actions in
\* the final action set equals the number of descriptions resolved in that
\* invocation, whatever desc2xy held before.
C17_UnresolvedDropped ==
  step_pc = "returned" =>
    /\ \A d \in Descriptions :
         (Proposed(d) /\ d \notin DOMAIN ResolvedNow)
         => FinalFrom(ProposedFor(d)) = {}
    /\ Cardinality(FinalFrom(UNION {ProposedFor(d) : d \in Descriptions}))
         = Cardinality(DOMAIN ResolvedNow)

\* C18: in one resolution pass over several descriptions, the failure of all
\* 3 attempts for one description neither raises nor stops the pass: every
\* other description still gets its own budget of up to 3 attempts, every
\* description that resolves is stored in desc2xy, and predict_step returns
\* an output.
C18_PassGoesOn ==
  /\ step_pc = "grounding" => ENABLED GroundingAttempt
  /\ step_pc = "convert" => ENABLED PredictStepReturn
  /\ (PassOver /\ grounding_calls # <<>>) =>
       \A k \in 1..Len(element_descriptions) :
         LET calls == CallsFor(element_descriptions[k])
         IN /\ calls # <<>>
            /\ \/ /\ ~Failed(Last(calls))
                  /\ desc2xy[element_descriptions[k]] = Last(calls).coords
               \/ /\ Len(calls) = 3
                  /\ \A j \in 1..3 : Failed(calls[j])

C18_Witness ==
  /\ step_pc = "returned"
  /\ Len(element_descriptions) = 2
  /\ Len(CallsFor(element_descriptions[1])) = 3
  /\ Failed(CallsFor(element_descriptions[1])[3])
  /\ Len(CallsFor(element_descriptions[2])) = 2
  /\ DOMAIN desc2xy = {element_descriptions[2]}
  /\ Len(final_output_items) = 1

\* C19: the first grounding attempt uses the bare description as
\* instruction; attempts 2 and 3 use the description followed by the clause
\* of coordinates to avoid if and only if the history holds at least one
\* computer_call item with x and y, and the clause lists exactly the (x, y)
\* pairs of those items in the order of the history.
C19_Instructions ==
  step_pc \in {"grounding", "convert", "returned"} =>
    \A k \in 1..Len(grounding_calls) :
      LET call == grounding_calls[k]
      IN IF call.attempt >= 1 /\ \E j \in 1..Len(messages) : HasXY(messages[j])
         THEN call.instruction
                = call.desc \o <<". Avoid these previously failed coordinates: ",
                                 HistoryPairs(messages)>>
         ELSE call.instruction = call.desc

C19_Witness ==
  /\ step_pc = "returned"
  /\ HistoryPairs(messages) = <<<<3, 4>>, <<1, 2>>>>
  /\ Len(grounding_calls) = 3
  /\ grounding_calls[1].instruction = grounding_calls[1].desc
  /\ grounding_calls[3].instruction
       = grounding_calls[3].desc \o <<". Avoid these previously failed coordinates: ",
                                      <<<<3, 4>>, <<1, 2>>>>>>

C21_DescriptionsOnly ==
  step_pc \in {"grounding", "convert", "returned"} =>
    \A k \in 1..Len(messages) :
      HasXY(messages[k]) =>
        /\ DescribesElement(messages_with_descriptions[k])
        /\ ~HasXY(messages_with_descriptions[k])

\* C22: on one instance the key set of desc2xy never shrinks, and a key is
\* added or its value changed only by a predict_click call that succeeded
\* for exactly that description, the value becoming the coordinate that
\* call returned.
C22_CacheGrows ==
  [][/\ DOMAIN desc2xy \subseteq DOMAIN desc2xy'
     /\ \A d \in DOMAIN desc2xy' :
          (d \notin DOMAIN desc2xy \/ desc2xy'[d] # desc2xy[d]) =>
            /\ step_pc = "grounding"
            /\ element_descriptions[desc_k] = d
            /\ Len(grounding_calls') = Len(grounding_calls) + 1
            /\ LET call == grounding_calls'[Len(grounding_calls')]
               IN /\ call.desc = d
                  /\ call.coords \in Coordinates
                  /\ desc2xy'[d] = call.coords]_vars

\* a description cached by an earlier invocation was resolved again, to
\* another coordinate
C22_Witness ==
  /\ step_pc = "returned"
  /\ \E d \in DOMAIN desc2xy_before :
       /\ desc2xy[d] # desc2xy_before[d]
       /\ \E k \in 1..Len(grounding_calls) :
            grounding_calls[k].desc = d /\ Failed(grounding_calls[k])

\* the identifier names a grounding and a thinking model
Composed(m) == "+" \in {m[k] : k \in 1..Len(m)}

\* the step is a call of predict_step or of predict_click with an
\* identifier that is no pair
CalledWithoutPair ==
  /\ step_pc = "idle"
  /\ \/ step_pc' \in {"raised", "grounding", "convert"} /\ ~Composed(model')
     \/ step_pc' = "clicked" /\ ~Composed(click'.model)

\* C23: predict_step or predict_click called with a model identifier that
\* is no grounding+thinking pair raises a configuration error in that very
\* step: no screenshot is captured, the thinking model is not called, no
\* grounding agent is sought or called, and desc2xy and the stored
\* before-image are what they were.
C23_ConfigurationError ==
  [][CalledWithoutPair =>
       /\ \/ step_pc' = "raised" /\ step_exception' = "ValueError"
          \/ /\ step_pc' = "clicked"
             /\ click'.exception = "ValueError"
             /\ click'.configs_sought = 0
             /\ click'.grounding_calls = 0
       /\ captured' = "no"
       /\ thinking_calls' = 0
       /\ grounding_calls' = <<>>
       /\ UNCHANGED <<desc2xy, last_before_image, grounding_agents, messages>>]_vars

\* predict_step raised on an instance that holds a cache and a before-image
C23_Witness ==
  /\ step_pc = "raised"
  /\ step_exception = "ValueError"
  /\ ~Composed(model)
  /\ DOMAIN desc2xy = Descriptions
  /\ last_before_image = "B"

\* predict_click raised
C23_WitnessClick ==
  /\ step_pc = "clicked"
  /\ ~Composed(click.model)
  /\ click.exception = "ValueError"
  /\ DOMAIN desc2xy = Descriptions

\* the image parts of a prompt: message and position in its content
PromptImages(completion) ==
  UNION {{<<k, j>> : j \in {h \in 1..Len(completion[k].content.v) :
                               IsImagePart(completion[k].content.v[h])}} :
           k \in {h \in 1..Len(completion) : completion[h].content.py = "list"}}

\* C24: when the history holds no screenshot and the capture raises,
\* predict_step raises nothing: the thinking model is called once with a
\* prompt without image part, no grounding call is made, desc2xy and the
\* stored before-image stay what they were, and the output is returned.
C24_CaptureFailure ==
  [][captured' = "raised" =>
       /\ step_exception' = None
       /\ step_pc' \in {"convert", "returned"}
       /\ step_pc' = "convert" => step_pc = "idle" /\ Screenshots(messages) = <<>>
       /\ thinking_calls' = 1
       /\ PromptImages(completion_messages') = {}
       /\ grounding_calls' = <<>>
       /\ desc2xy' = desc2xy
       /\ last_before_image' = last_before_image]_vars

\* the capture raised in an invocation whose thinking model proposed an
\* action on a described element, on an instance that holds a before-image
C24_Witness ==
  /\ step_pc = "returned"
  /\ captured = "raised"
  /\ element_descriptions # <<>>
  /\ last_before_image = "A"

\* the latest image of a history
LatestImage(history) ==
  IF Screenshots(history) = <<>> THEN None
  ELSE Screenshots(history)[Len(Screenshots(history))]

InInvocation == step_pc \in {"grounding", "convert", "returned"}

C25_WitnessToolResult ==
  /\ step_pc = "returned"
  /\ Screenshots(messages) = <<"A", "B">>
  /\ IsToolResult(messages[4])
  /\ last_image_b64 = "B"
  /\ captured = "no"

\* the content parts of the last message of the prompt
LastParts(completion) ==
  IF completion # <<>> /\ completion[Len(completion)].content.py = "list"
  THEN completion[Len(completion)].content.v
  ELSE <<>>

\* C26: in an invocation that has a current screenshot, the thinking model
\* is shown exactly one image, the current screenshot, if the history holds
\* no tool result; if it holds one (and the invocation before had a
\* screenshot), it is shown exactly two images, the label BEFORE, the image
\* that was current in the invocation before, the label AFTER and the
\* current screenshot, in that order.
C26_PromptImages ==
  (InInvocation /\ Truthy(last_image_b64)) =>
    LET shown == LastParts(completion_messages)
    IN IF ~HasToolResults(messages)
       THEN PartImages(shown) = <<last_image_b64>>
       ELSE Truthy(previous.image) =>
              /\ Len(PartImages(shown)) = 2
              /\ SubSeq(shown, Len(shown) - 3, Len(shown))
                   = <<BeforeLabel, ImagePart(previous.image),
                       AfterLabel, ImagePart(last_image_b64)>>

\* C27: after every invocation that had a current screenshot the stored
\* before-image is that screenshot, whatever the last item of the history
\* was.
C27_BeforeImageStored ==
  (step_pc = "returned" /\ Truthy(last_image_b64)) =>
    last_before_image = last_image_b64

\* ------------------------------------------------------------------------
\* Properties of the Programmer's background command
\* ------------------------------------------------------------------------
\* the calls in flight in a run: the one the controller awaits, and those of
\* detached tasks
ModelCallsInFlight(e) == IF e.pc = "model" THEN 1 ELSE 0
AwaitedBackendActions(e) == IF e.pc = "backend" THEN 1 ELSE 0
DetachedInFlight(e) ==
  Cardinality({k \in 1..Len(e.tasks) : e.tasks[k].state = "in_flight"})
BackendActionsInFlight(e) == AwaitedBackendActions(e) + DetachedInFlight(e)

\* the run_command_in_background calls of a transcript that the tool was
\* entered for
BackgroundCalls(e) ==
  LET calls == SelectSeq(e.history,
                         LAMBDA item : IsFunctionCall(item)
                                       /\ item.name = "run_command_in_background")
  IN IF e.pc = "run_command_in_background" THEN SubSeq(calls, 1, Len(calls) - 1)
     ELSE calls

\* C28 as stated: never two model calls and never two backend actions in
\* flight at the same time, also after run_command_in_background.
C28_OneCallInFlight ==
  /\ ModelCallsInFlight(programmer) <= 1
  /\ BackendActionsInFlight(programmer) <= 1

\* C28: the controller awaits at most one call at a time, a model call or a
\* backend action; whatever else is in flight is the backend call of a
\* detached task, and there is one detached task for every
\* run_command_in_background call made.
C28_Sequential ==
  /\ ModelCallsInFlight(programmer) + AwaitedBackendActions(programmer) <= 1
  /\ Len(programmer.tasks) = Len(BackgroundCalls(programmer))
  /\ \A k \in 1..Len(programmer.tasks) :
       programmer.tasks[k].command = BackgroundCommand(CommandOf(BackgroundCalls(programmer)[k]))
  /\ BackendActionsInFlight(programmer)
       <= AwaitedBackendActions(programmer) + Len(BackgroundCalls(programmer))

\* run_command waits for the backend while the command of an earlier
\* run_command_in_background is still with the backend
C28_Witness ==
  /\ programmer.pc = "backend"
  /\ DetachedInFlight(programmer) = 1
  /\ BackendActionsInFlight(programmer) = 2

\* C29: once the detached task is created, run_command_in_background
\* returns its acknowledgement as the next thing that happens, whatever the
\* backend does with the command: the task has not even begun, and the text
\* returned names the command and holds no output.
C29_Acknowledgement ==
  [][programmer.pc = "created" =>
       /\ programmer'.pc = "model"
       /\ programmer'.tasks = programmer.tasks
       /\ programmer.tasks[Len(programmer.tasks)].state = "scheduled"
       /\ programmer'.returned =
            Append(programmer.returned, <<"Command '", "firefox", "' started in background.">>)
       /\ programmer'.history[Len(programmer'.history)].output.v
            = <<"Command '", "firefox", "' started in background.">>]_vars

\* the run is over, the acknowledgement was returned, and the backend has
\* not answered the detached command
C29_Witness ==
  /\ programmer.pc = "done"
  /\ Len(programmer.returned) = 1
  /\ programmer.tasks[1].state = "in_flight"

\* what the controller has of a run: the values run_command_in_background
\* returned, the transcript, where the run stands, and the item the
\* transcript gives the Orchestrator history
OrchestratorItem(e) ==
  IF e.pc = "done"
  THEN <<ToolResult(FirstDelegation, "started the browser",
                    get_last_image_b64(SeedHistory(Subtask, "A") \o e.history))>>
  ELSE <<>>

Visible(e) ==
  [returned |-> e.returned, history |-> e.history, pc |-> e.pc,
   orchestrator_history |-> OrchestratorItem(e)]

\* C30: two runs given the same answers by the model and the backend, whose
\* detached commands succeed, raise or stay unanswered independently, show
\* the controller the same returned values, the same transcript and the
\* same Orchestrator history item; the controller is never waiting on a
\* detached task.
C30_OutcomeInvisible ==
  /\ Visible(programmer) = Visible(twin)
  /\ programmer.pc = "created" => CanAcknowledge(programmer)
  /\ \A k \in 1..Len(programmer.tasks) :
       programmer.tasks[k].state \in {"scheduled", "in_flight", "succeeded", "raised"}

\* both runs are over; the detached command raised in one, succeeded in the
\* other
C30_Witness ==
  /\ programmer.pc = "done"
  /\ twin.pc = "done"
  /\ Len(programmer.tasks) = 1
  /\ programmer.tasks[1].state = "raised"
  /\ twin.tasks[1].state = "succeeded"

\* one run left its detached command unanswered
C30_WitnessUnanswered ==
  /\ programmer.pc = "done"
  /\ Len(programmer.tasks) = 1
  /\ programmer.tasks[1].state = "in_flight"
  /\ twin.tasks[1].state = "succeeded"

\* ---------------------------------------------------------------------------
\* The computer tool of the GUI Operator: GuiOperatorComputerProxy
\* (coact_1_example.py, lines 163-225) and the handler factory
\* (computers/__init__.py)

\* tool calls of the GUI Operator looked at
MaxGuiCalls == 2

\* nothing but a library routine is running
OnlyLibrary ==
  /\ pc = "library"
  /\ i = 0
  /\ orchestrator_loop = "direct"
  /\ orchestrator_history = <<>>
  /\ delegation = NoItem
  /\ tool_name = None
  /\ subtask = None
  /\ sub_agent = None
  /\ sub_agent_history = <<>>
  /\ summary_screenshot_b64 = None
  /\ summary_messages = <<>>
  /\ summary = None
  /\ exception = None
  /\ orchestrator_results = <<>>
  /\ sub_agent_runs = 0
  /\ summarize_calls = 0
  /\ summary_raised = FALSE
  /\ round_events = <<>>
  /\ round_start_history = <<>>
  /\ Constructed
  /\ NoProgrammerRun

\* the methods class GuiInterfaceProxy defines (lines 178-214)
GuiInterfaceProxyMethods ==
  {"left_click", "right_click", "double_click", "move_cursor", "mouse_down",
   "mouse_up", "drag", "type_text", "press_key", "hotkey", "screenshot",
   "get_screen_size", "scroll"}

\* the methods of the backend's interface the program calls: those the
\* proxy forwards to, and those of ProgrammerTools (lines 70, 108, 112, 116)
RealInterfaces ==
  LET gui  == GuiInterfaceProxyMethods
      rest == {"run_command", "list_dir", "read_text", "write_text"}
  IN  {gui \cup rest, gui \cup rest \cup {"scroll_down", "scroll_up"}}

\* a method of GuiInterfaceProxy called: the method of the real interface it
\* awaits. Every method but scroll forwards to its namesake.
GuiInterfaceProxyTypingToShell(method, scroll_y, real_interface) ==
  IF method = "type_text" THEN "run_command" ELSE method

GuiInterfaceProxy(method, scroll_y, real_interface) ==
  IF method # "scroll" THEN method
  ELSE IF scroll_y > 0
       THEN IF "scroll_down" \in real_interface THEN "scroll_down" ELSE "scroll"
  ELSE IF scroll_y < 0
       THEN IF "scroll_up" \in real_interface THEN "scroll_up" ELSE "scroll"
  ELSE "scroll"

\* GuiOperatorComputerProxy(computer), lines 169-174: what hasattr and
\* isinstance see of it, the methods of its interface, and the real interface
\* behind
GuiOperatorComputerProxy(real_interface) ==
  [class     |-> "GuiOperatorComputerProxy",
   attrs     |-> {"_computer_instance", "interface", "is_gui_proxy", "_initialized"},
   interface |-> GuiInterfaceProxyMethods,
   real      |-> real_interface]

\* the objects handed to is_agent_computer and make_computer_handler: a
\* handler, a Computer, a dict of functions, the proxy, and objects of no
\* known class with one, the other or neither of the two attributes
ComputerObjects ==
  LET Plain(attrs, interface) ==
        [class |-> "object", attrs |-> attrs, interface |-> interface, real |-> {}]
  IN  {GuiOperatorComputerProxy(r) : r \in RealInterfaces}
      \cup {[class |-> "Computer", attrs |-> {"interface"}, interface |-> r, real |-> r]
              : r \in RealInterfaces}
      \cup {[class |-> "AsyncComputerHandler", attrs |-> {}, interface |-> {}, real |-> {}],
            [class |-> "dict", attrs |-> {}, interface |-> {}, real |-> {}]}
      \cup {Plain({"is_gui_proxy"}, {}),
            Plain({"interface"}, GuiInterfaceProxyMethods),
            Plain({"interface", "is_gui_proxy"}, GuiInterfaceProxyMethods),
            Plain({"interface"}, {"screenshot"}),
            Plain({}, {})}

\* lines 14-20
is_agent_computer(computer) ==
  \/ computer.class = "AsyncComputerHandler"
  \/ computer.class = "Computer"
  \/ computer.class = "dict"
  \/ "is_gui_proxy" \in computer.attrs
  \/ "interface" \in computer.attrs

\* the dict of lines 55-68: each key with the method of computer.interface it
\* is bound to; "lambda" where the value is a stub that calls nothing
HandlerFunctions ==
  [screenshot      |-> "screenshot",
   get_environment |-> "lambda",
   get_dimensions  |-> "get_screen_size",
   click           |-> "left_click",
   double_click    |-> "double_click",
   move            |-> "move_cursor",
   type            |-> "type_text",
   keypress        |-> "press_key",
   press_key       |-> "press_key",
   hotkey          |-> "hotkey",
   scroll          |-> "scroll",
   wait            |-> "lambda"]

\* lines 22-69: the handler returned, or the exception raised. Building the
\* dict reads every attribute it binds (get_screen_size is read only when
\* get_dimensions is called), so an interface that lacks one raises
\* AttributeError.
make_computer_handler(computer) ==
  LET bound == {HandlerFunctions[k] : k \in DOMAIN HandlerFunctions}
                 \ {"lambda", "get_screen_size"}
  IN  IF computer.class = "AsyncComputerHandler"
        THEN [returned |-> "AsyncComputerHandler", functions |-> EmptyDict, raised |-> None]
      ELSE IF computer.class = "Computer"
        THEN [returned |-> "cuaComputerHandler", functions |-> EmptyDict, raised |-> None]
      ELSE IF computer.class = "dict"
        THEN [returned |-> "CustomComputerHandler", functions |-> EmptyDict, raised |-> None]
      ELSE IF "interface" \in computer.attrs
        THEN IF bound \subseteq computer.interface
               THEN [returned |-> "CustomComputerHandler",
                     functions |-> HandlerFunctions, raised |-> None]
               ELSE [returned |-> None, functions |-> EmptyDict,
                     raised |-> "AttributeError"]
      ELSE [returned |-> None, functions |-> EmptyDict, raised |-> "ValueError"]

\* what the GUI Operator's model may ask for: a computer call with an action
\* type, or a function call with a name
GuiOperatorCalls ==
  LET names == DOMAIN HandlerFunctions
                 \cup {"run_command", "read_file", "write_file", "list_dir", "drag"}
  IN  {[type |-> t, name |-> n, scroll_y |-> 0] :
         t \in {"computer_call", "function_call"}, n \in names \ {"scroll"}}
      \cup {[type |-> "computer_call", name |-> "scroll", scroll_y |-> y] :
              y \in {-100, 0, 100}}

\* one tool call of the GUI Operator carried out against its one tool, the
\* handler made of the proxy (line 500): the methods of the real interface
\* reached. The agent calls the handler function named by a computer call's
\* action type, if there is one; the toolset holds no function, so a
\* function call has nothing to run.
Dispatch(handler, call, computer) ==
  IF call.type = "computer_call" /\ call.name \in DOMAIN handler.functions
    THEN LET method == handler.functions[call.name]
         IN  IF method = "lambda" THEN <<>>
             ELSE <<GuiInterfaceProxy(method, call.scroll_y, computer.real)>>
    ELSE <<>>

HandlerInit ==
  /\ OnlyLibrary
  /\ \E computer \in ComputerObjects :
       gui_operator = [pc |-> "constructed", computer |-> computer,
                       agent_computer |-> None, handler |-> None,
                       calls |-> <<>>, reached |-> <<>>]
  /\ venus = NoCall
  /\ generic = NoCall
  /\ lookup = NoCall

IsAgentComputer ==
  /\ gui_operator.pc = "constructed"
  /\ gui_operator' =
       [gui_operator EXCEPT !.pc = "checked",
                            !.agent_computer = is_agent_computer(gui_operator.computer)]
  /\ UNCHANGED <<venus, generic, lookup>>
  /\ UNCHANGED coact_vars
  /\ UNCHANGED grounded_vars
  /\ UNCHANGED programmer_vars

MakeComputerHandler ==
  /\ gui_operator.pc = "checked"
  /\ LET handler == make_computer_handler(gui_operator.computer)
     IN  gui_operator' =
           [gui_operator EXCEPT !.pc = IF handler.raised = None THEN "made" ELSE "raised",
                                !.handler = handler]
  /\ UNCHANGED <<venus, generic, lookup>>
  /\ UNCHANGED coact_vars
  /\ UNCHANGED grounded_vars
  /\ UNCHANGED programmer_vars

\* one tool call of the GUI Operator, whose computer is the proxy (lines 284,
\* 500)
GuiOperatorToolCall ==
  /\ gui_operator.pc = "made"
  /\ gui_operator.computer.class = "GuiOperatorComputerProxy"
  /\ Len(gui_operator.calls) < MaxGuiCalls
  /\ \E call \in GuiOperatorCalls :
       gui_operator' =
         [gui_operator EXCEPT
            !.calls = Append(@, call),
            !.reached = Append(@, Dispatch(gui_operator.handler, call,
                                           gui_operator.computer))]
  /\ UNCHANGED <<venus, generic, lookup>>
  /\ UNCHANGED coact_vars
  /\ UNCHANGED grounded_vars
  /\ UNCHANGED programmer_vars

HandlerNext ==
  \/ IsAgentComputer
  \/ MakeComputerHandler
  \/ GuiOperatorToolCall

HandlerSpec == HandlerInit /\ [][HandlerNext]_vars

\* C31: whatever tool calls the GUI Operator makes, every method of the
\* backend's interface they reach is a screenshot, screen-size, pointer or
\* keyboard method, none runs a command or touches a file; the handler has
\* no function for a shell or file request and the proxy's interface has no
\* such method, so a call that asks for one reaches nothing.
C31_GuiOnly ==
  LET g == gui_operator
      pointer  == {"left_click", "right_click", "double_click", "move_cursor",
                   "mouse_down", "mouse_up", "drag", "scroll", "scroll_down",
                   "scroll_up"}
      keyboard == {"type_text", "press_key", "hotkey"}
      screen   == {"screenshot", "get_screen_size"}
      shell    == {"run_command", "read_file", "write_file", "list_dir",
                   "read_text", "write_text"}
  IN  (g.pc = "made" /\ g.computer.class = "GuiOperatorComputerProxy") =>
        /\ g.computer.interface \subseteq pointer \cup keyboard \cup screen
        /\ DOMAIN g.handler.functions \cap shell = {}
        /\ \A k \in 1..Len(g.calls) :
             /\ \A j \in 1..Len(g.reached[k]) :
                  g.reached[k][j] \in pointer \cup keyboard \cup screen
             /\ g.calls[k].name \in shell => g.reached[k] = <<>>

\* the GUI Operator asked for run_command, which reached nothing, and then
\* typed, which reached type_text
C31_Witness ==
  /\ gui_operator.pc = "made"
  /\ Len(gui_operator.calls) = 2
  /\ gui_operator.calls[1].name = "run_command"
  /\ gui_operator.calls[1].type = "computer_call"
  /\ gui_operator.reached[1] = <<>>
  /\ gui_operator.calls[2].name = "type"
  /\ gui_operator.reached[2] = <<"type_text">>

\* C39: for every computer object, is_agent_computer returns true exactly
\* when make_computer_handler returns a handler instead of raising
\* ValueError.
C39_AgentComputerIffHandler ==
  gui_operator.pc \in {"made", "raised"} =>
    (gui_operator.agent_computer = TRUE
       <=> gui_operator.handler.raised # "ValueError")

\* ---------------------------------------------------------------------------
\* The grounding call of UI-Venus (ui_venus_ground.py) and the attempt of the
\* composed loop that makes it (composed_grounded.py, lines 397-409)

\* the instruction handed to predict_click: a description, or nothing
VenusInstructions == {"", "red submit button"}

\* the image handed to predict_click: one that decodes, one that does not
VenusImages == {"png", "not an image"}

\* eval(bbox_str), line 215, on the texts looked at: the value, or the
\* exception raised; numbers tells whether float() takes every element (None
\* stands as 0 where it does not)
eval(bbox_str) ==
  LET Value(v) == [value |-> v, numbers |-> TRUE, raised |-> None]
      Raise(e) == [value |-> None, numbers |-> FALSE, raised |-> e]
  IN  CASE bbox_str = "[0,0,0,0]"       -> Value(List(<<0, 0, 0, 0>>))
        [] bbox_str = "[10,20,30,41]"   -> Value(List(<<10, 20, 30, 41>>))
        [] bbox_str = "[-3,-8,0,1]"     -> Value(List(<<-3, -8, 0, 1>>))
        [] bbox_str = "[10,20]"         -> Value(List(<<10, 20>>))
        [] bbox_str = "(10,20,30,40)"   -> Value([py |-> "tuple", v |-> <<10, 20, 30, 40>>])
        [] bbox_str = "[None,0,0,0]"    ->
             [value |-> List(<<0, 0, 0, 0>>), numbers |-> FALSE, raised |-> None]
        [] bbox_str = ""                -> Raise("SyntaxError")
        [] bbox_str = "top left corner" -> Raise("SyntaxError")
        [] bbox_str = "none"            -> Raise("NameError")
        [] bbox_str = "exit()"          -> Raise("SystemExit")

\* what processor.batch_decode hands back (lines 159-161): a list with the
\* text the network generated, or an empty list
DecodedOutputs ==
  {<<>>} \cup {<<t>> : t \in {"[0,0,0,0]", "[10,20,30,41]", "[-3,-8,0,1]",
                               "[10,20]", "(10,20,30,40)", "[None,0,0,0]", "",
                               "top left corner", "none", "exit()"}}

\* lines 87-163: generate, for the one user message predict_click builds
generate(instruction, image_path, output_text) ==
  IF instruction = "" \/ image_path = ""
    THEN "[0,0,0,0]"
  ELSE IF output_text # <<>> THEN output_text[1] ELSE "[0,0,0,0]"

\* int(x / 2) of Python: the quotient cut towards zero
HalfTowardsZero(x) == IF x >= 0 THEN x \div 2 ELSE -((-x) \div 2)

\* lines 165-248: UIVenusGroundModel.predict_click: the pair or None (NoXY)
\* returned, or the exception that leaves it. "except Exception" (line 242)
\* takes every exception but those that are no Exception.
predict_click(image_b64, instruction, output_text) ==
  LET None_ == [coords |-> NoXY, raised |-> None]
  IN  IF image_b64 # "png" THEN None_          \* lines 184-185 raise
      ELSE
        LET bbox_str == generate(instruction, "/tmp/tmp.png", output_text)
            box == eval(bbox_str)
        IN  IF box.raised = "SystemExit"
              THEN [coords |-> NoXY, raised |-> "SystemExit"]
            ELSE IF box.raised # None THEN None_
            ELSE IF box.value.py = "list" /\ Len(box.value.v) = 4
              THEN IF ~box.numbers
                     THEN None_                  \* float(None): TypeError
                     ELSE [coords |->
                             <<HalfTowardsZero(box.value.v[1] + box.value.v[3]),
                               HalfTowardsZero(box.value.v[2] + box.value.v[4])>>,
                           raised |-> None]
            ELSE None_

\* lines 287-343: UIVenusGroundConfig.predict_click, given what the model
\* instance's predict_click did
ConfigPredictClick(result) ==
  IF result.raised = "SystemExit" THEN result
  ELSE IF result.raised # None THEN [coords |-> NoXY, raised |-> None]
  ELSE result

VenusInit ==
  /\ OnlyLibrary
  /\ \E image_b64 \in VenusImages, instruction \in VenusInstructions,
        output_text \in DecodedOutputs :
       venus = [pc |-> "called", image_b64 |-> image_b64,
                instruction |-> instruction, output_text |-> output_text,
                bbox_str |-> None, result |-> None, coords |-> NoXY,
                success |-> FALSE, desc2xy |-> EmptyDict]
  /\ gui_operator = NoCall
  /\ generic = NoCall
  /\ lookup = NoCall

\* lines 176-211: up to the return of generate; an image that does not
\* decode ends the call before
VenusGenerate ==
  /\ venus.pc = "called"
  /\ venus' =
       IF venus.image_b64 = "png"
       THEN [venus EXCEPT !.pc = "generated",
                          !.bbox_str = generate(venus.instruction, "/tmp/tmp.png",
                                                venus.output_text)]
       ELSE [venus EXCEPT !.pc = "returned",
                          !.result = predict_click(venus.image_b64, venus.instruction,
                                                   venus.output_text)]
  /\ UNCHANGED <<gui_operator, generic, lookup>>
  /\ UNCHANGED coact_vars
  /\ UNCHANGED grounded_vars
  /\ UNCHANGED programmer_vars

\* lines 213-248
VenusPredictClickReturns ==
  /\ venus.pc = "generated"
  /\ venus' = [venus EXCEPT !.pc = "returned",
                            !.result = predict_click(venus.image_b64, venus.instruction,
                                                     venus.output_text)]
  /\ UNCHANGED <<gui_operator, generic, lookup>>
  /\ UNCHANGED coact_vars
  /\ UNCHANGED grounded_vars
  /\ UNCHANGED programmer_vars

\* lines 330-343 of the config, then lines 403-409 of the composed loop: the
\* attempt counted
VenusAttemptCounted ==
  /\ venus.pc = "returned"
  /\ LET answer == ConfigPredictClick(venus.result)
     IN  venus' =
           IF answer.raised # None
           THEN [venus EXCEPT !.pc = "raised"]
           ELSE [venus EXCEPT
                   !.pc = "counted",
                   !.coords = answer.coords,
                   !.success = Succeeded(answer.coords),
                   !.desc2xy = IF Succeeded(answer.coords)
                               THEN Put(@, StoreKey(<<"red submit button">>,
                                                    venus.instruction),
                                        answer.coords)
                               ELSE @]
  /\ UNCHANGED <<gui_operator, generic, lookup>>
  /\ UNCHANGED coact_vars
  /\ UNCHANGED grounded_vars
  /\ UNCHANGED programmer_vars

VenusNext ==
  \/ VenusGenerate
  \/ VenusPredictClickReturns
  \/ VenusAttemptCounted

VenusSpec == VenusInit /\ [][VenusNext]_vars

\* the network produced no bounding box: the instruction was missing, the
\* decoded output was empty, or the text is no list of four elements
NoBoundingBox(v) ==
  \/ v.instruction = ""
  \/ v.output_text = <<>>
  \/ v.output_text[1] \in {"", "top left corner", "none", "[10,20]",
                           "(10,20,30,40)"}

\* C32: UIVenusGroundModel.predict_click returns a pair or None and never
\* raises; when the model produced no bounding box (missing instruction,
\* empty decoded output, unparsable output, a box that is no 4-element
\* list) it returns None, and the composed loop counts the attempt as failed
\* and writes nothing to desc2xy.
C32_NoneWithoutBox ==
  /\ venus.pc \in {"returned", "counted", "raised"} =>
       /\ venus.result.raised = None
       /\ venus.image_b64 = "png" /\ NoBoundingBox(venus) =>
            venus.result.coords = NoXY
  /\ venus.pc # "raised"
  /\ (venus.pc = "counted" /\ venus.image_b64 = "png" /\ NoBoundingBox(venus)) =>
       /\ ~venus.success
       /\ venus.desc2xy = EmptyDict

\* ---------------------------------------------------------------------------
\* More properties of the composed loop

\* C33: every coordinate predict_step puts in place of a description in its
\* final action set was returned by predict_click during that same
\* invocation, called with that invocation's current screenshot; when
\* grounding failed, no screenshot was there or no grounding agent exists, no
\* coordinate cached by an earlier invocation is emitted.
C33_FreshCoordinates ==
  step_pc = "returned" =>
    \A d \in Descriptions :
      \A k \in FinalFrom(ProposedFor(d)) :
        \E c \in 1..Len(grounding_calls) :
          /\ grounding_calls[c].desc = d
          /\ grounding_calls[c].image_b64 = last_image_b64
          /\ grounding_calls[c].coords =
               <<final_output_items[k].action.x, final_output_items[k].action.y>>

\* ---------------------------------------------------------------------------
\* More properties of CoAct1.run

\* C34: when a planning prompt has just been appended to the Orchestrator
\* history, every delegation ToolCall before it is followed by a ToolResult;
\* no round, one skipped for an unknown delegation target included, leaves a
\* ToolCall unanswered.
C34_EveryCallAnswered ==
  pc = "plan" =>
    \A k \in 1..(Len(orchestrator_history) - 1) :
      IsFunctionCall(orchestrator_history[k])
      => IsToolResult(orchestrator_history[k + 1])

\* the texts an item of a transcript holds: its content or output when that
\* is a text, the text of every part of it when it is a list
TextsOf(item) ==
  LET Of(value) ==
        IF value.py = "str" THEN {value.v}
        ELSE IF value.py = "list"
          THEN {value.v[k].text : k \in {j \in 1..Len(value.v) : Has(value.v[j], "text")}}
        ELSE {}
  IN  (IF Has(item, "content") THEN Of(item.content) ELSE {})
      \cup (IF Has(item, "output") THEN Of(item.output) ELSE {})

\* C35: the summarization input is the transcript less its image data only:
\* every text of every item of the sub-agent transcript, the subtask text of
\* the seeding user message included, is in the text sent to the
\* summarization call.
C35_TextKept ==
  summarize_calls > 0 =>
    LET sent == summary_messages[1].content.v[1].text[3]
    IN  \A k \in 1..Len(sub_agent_history) :
          \A t \in TextsOf(sub_agent_history[k]) :
            \E j \in 1..Len(sent) : t \in TextsOf(sent[j])

\* ---------------------------------------------------------------------------
\* GenericConfig.predict_step (generic.py, lines 310-423): the completion
\* call, its hooks and its except clause

\* what litellm.acompletion does: it answers, raises an Exception, or is
\* cancelled (asyncio.CancelledError is no Exception)
CompletionOutcomes == {"response", "RateLimitError", "CancelledError"}

\* a hook handed to predict_step: not supplied, returning, or raising
Hooks == {"absent", "returns", "raises"}

\* the local name response before line 340 assigned it
UnboundResponse == "<unbound>"

GenericInit ==
  /\ OnlyLibrary
  /\ \E completion \in CompletionOutcomes, on_api_start \in Hooks,
        on_api_end \in Hooks, stream \in BOOLEAN :
       generic = [pc |-> "try", completion |-> completion,
                  on_api_start |-> on_api_start, on_api_end |-> on_api_end,
                  stream |-> stream, response |-> UnboundResponse, e |-> None,
                  completion_raised |-> None, api_start_calls |-> 0,
                  api_end_calls |-> <<>>, returned |-> None, exception |-> None]
  /\ gui_operator = NoCall
  /\ venus = NoCall
  /\ lookup = NoCall

\* lines 311-338
GenericApiStart ==
  /\ generic.pc = "try"
  /\ generic' =
       IF generic.on_api_start = "absent"
         THEN [generic EXCEPT !.pc = "acompletion"]
       ELSE IF generic.on_api_start = "returns"
         THEN [generic EXCEPT !.pc = "acompletion", !.api_start_calls = @ + 1]
       ELSE [generic EXCEPT !.pc = "except", !.e = "HookError",
                            !.api_start_calls = @ + 1]
  /\ UNCHANGED <<gui_operator, venus, lookup>>
  /\ UNCHANGED coact_vars
  /\ UNCHANGED grounded_vars
  /\ UNCHANGED programmer_vars

\* line 340: response is assigned only if the call returns; an Exception
\* goes to the except clause, anything else leaves predict_step
GenericCompletion ==
  /\ generic.pc = "acompletion"
  /\ generic' =
       IF generic.completion = "response"
         THEN [generic EXCEPT !.pc = "api_end", !.response = "response"]
       ELSE IF generic.completion = "CancelledError"
         THEN [generic EXCEPT !.pc = "raised", !.exception = generic.completion,
                              !.completion_raised = generic.completion]
       ELSE [generic EXCEPT !.pc = "except", !.e = generic.completion,
                            !.completion_raised = generic.completion]
  /\ UNCHANGED <<gui_operator, venus, lookup>>
  /\ UNCHANGED coact_vars
  /\ UNCHANGED grounded_vars
  /\ UNCHANGED programmer_vars

\* lines 355-356
GenericApiEnd ==
  /\ generic.pc = "api_end"
  /\ generic' =
       IF generic.on_api_end = "absent"
         THEN [generic EXCEPT !.pc = "process"]
       ELSE IF generic.on_api_end = "returns"
         THEN [generic EXCEPT !.pc = "process",
                              !.api_end_calls = Append(@, generic.response)]
       ELSE [generic EXCEPT !.pc = "except", !.e = "HookError",
                            !.api_end_calls = Append(@, generic.response)]
  /\ UNCHANGED <<gui_operator, venus, lookup>>
  /\ UNCHANGED coact_vars
  /\ UNCHANGED grounded_vars
  /\ UNCHANGED programmer_vars

\* lines 358-418
GenericReturn ==
  /\ generic.pc = "process"
  /\ generic' = [generic EXCEPT !.pc = "returned",
                                !.returned = [output |-> generic.response,
                                              stream |-> generic.stream]]
  /\ UNCHANGED <<gui_operator, venus, lookup>>
  /\ UNCHANGED coact_vars
  /\ UNCHANGED grounded_vars
  /\ UNCHANGED programmer_vars

\* lines 420-423: with a hook, its arguments are evaluated first, and reading
\* the name response before line 340 assigned it raises UnboundLocalError;
\* "raise e" is reached only when the hook was called and returned
GenericExcept ==
  /\ generic.pc = "except"
  /\ generic' =
       IF generic.on_api_end = "absent"
         THEN [generic EXCEPT !.pc = "raised", !.exception = generic.e]
       ELSE IF generic.response = UnboundResponse
         THEN [generic EXCEPT !.pc = "raised", !.exception = UnboundLocalError]
       ELSE IF generic.on_api_end = "raises"
         THEN [generic EXCEPT !.pc = "raised", !.exception = "HookError",
                              !.api_end_calls = Append(@, generic.response)]
       ELSE [generic EXCEPT !.pc = "raised", !.exception = generic.e,
                            !.api_end_calls = Append(@, generic.response)]
  /\ UNCHANGED <<gui_operator, venus, lookup>>
  /\ UNCHANGED coact_vars
  /\ UNCHANGED grounded_vars
  /\ UNCHANGED programmer_vars

GenericNext ==
  \/ GenericApiStart
  \/ GenericCompletion
  \/ GenericApiEnd
  \/ GenericReturn
  \/ GenericExcept

GenericSpec == GenericInit /\ [][GenericNext]_vars

\* C37: when the completion call raises, the exception that leaves
\* predict_step is that same exception, with and without an _on_api_end hook.
C37_SameException ==
  (generic.pc = "raised" /\ generic.completion_raised # None) =>
    generic.exception = generic.completion_raised

\* ---------------------------------------------------------------------------
\* The two copies of get_last_image_b64 (coact_1_example.py, lines 135-161;
\* composed_grounded.py, lines 115-141) on one history

\* the items of the histories looked at: those of a sub-agent transcript, a
\* function_call_output whose list holds text parts only, and one whose list
\* holds its image part before its text part
LookupItems ==
  TranscriptItems
  \cup {[type |-> "function_call_output", call_id |-> [call |-> 0],
         output |-> List(<<TextPart(<<"Sub-task completed.">>),
                           TextPart(<<"No screenshot.">>)>>)],
        [type |-> "function_call_output", call_id |-> [call |-> 0],
         output |-> List(<<ImagePart("B"), TextPart(<<"see the screen">>)>>)]}

RECURSIVE LookupHistories(_)
LookupHistories(n) ==
  IF n = 0 THEN {<<>>}
  ELSE LookupHistories(n - 1)
       \cup {Append(h, item) : h \in {x \in LookupHistories(n - 1) : Len(x) = n - 1},
                               item \in LookupItems}

LookupInit ==
  /\ OnlyLibrary
  /\ \E history \in LookupHistories(MaxTranscriptLen) :
       lookup = [pc |-> "called", messages |-> history,
                 coact |-> "not called", composed |-> "not called"]
  /\ gui_operator = NoCall
  /\ venus = NoCall
  /\ generic = NoCall

\* coact_1_example.get_last_image_b64(messages)
CoactLookup ==
  /\ lookup.pc = "called"
  /\ lookup.coact = "not called"
  /\ lookup' = [lookup EXCEPT !.coact = get_last_image_b64(lookup.messages)]
  /\ UNCHANGED <<gui_operator, venus, generic>>
  /\ UNCHANGED coact_vars
  /\ UNCHANGED grounded_vars
  /\ UNCHANGED programmer_vars

\* composed_grounded.get_last_image_b64(messages)
ComposedLookup ==
  /\ lookup.pc = "called"
  /\ lookup.composed = "not called"
  /\ lookup' = [lookup EXCEPT !.composed = composed_get_last_image_b64(lookup.messages)]
  /\ UNCHANGED <<gui_operator, venus, generic>>
  /\ UNCHANGED coact_vars
  /\ UNCHANGED grounded_vars
  /\ UNCHANGED programmer_vars

LookupNext ==
  \/ CoactLookup
  \/ ComposedLookup

LookupSpec == LookupInit /\ [][LookupNext]_vars

\* C38: for every history the two copies of get_last_image_b64 return the
\* same result and neither raises, histories whose function_call_output
\* items hold a list of text parts and no image part included.
C38_SameResult ==
  (lookup.pc = "called" /\ lookup.coact # "not called"
     /\ lookup.composed # "not called") =>
    /\ lookup.coact # UnboundLocalError
    /\ lookup.composed # UnboundLocalError
    /\ lookup.coact = lookup.composed

\* ---------------------------------------------------------------------------
\* More properties of the Programmer's run

\* C36: under fair scheduling of the event loop, every background command
\* that run_command_in_background acknowledged is in the end sent to the
\* backend by its detached task, also when the acknowledgement is the last
\* thing the run did before it ended.
C36_EventuallyDispatched ==
  \A k \in 1..MaxToolCalls :
    (Len(programmer.returned) >= k)
      ~> (Len(programmer.tasks) >= k /\ programmer.tasks[k].state # "scheduled")

\* the run is over: its one tool call was a background command, the
\* acknowledgement was the last thing before the model's closing answer, and
\* the command has been sent
C36_Witness ==
  /\ programmer.pc = "done"
  /\ programmer.calls = 1
  /\ Len(programmer.returned) = 1
  /\ Len(programmer.history) = 3
  /\ programmer.history[2].output.v = Acknowledgement("firefox")
  /\ programmer.tasks[1].state # "scheduled"
  /\ programmer.tasks[1].command = BackgroundCommand("firefox")

====
